---- MODULE Spec2Model ----
(***************************************************************************)
(* State-machine model of the memory-hierarchy simulators:                 *)
(*   - Cache  (01_Cache_Basics/cache_simulator.py)                         *)
(*   - TLB    (03_TLB/tlb_simulator.py)                                    *)
(*   - RISCV_Sv39_PageWalker (04_Page_Walk/page_walk_sim.py)               *)
(* Each method is one action; helper methods are operators computed the    *)
(* way the code computes them.                                             *)
(***************************************************************************)
EXTENDS Integers, Sequences, FiniteSets, TLC

VARIABLES
    args,               \* arguments handed to Cache.__init__
    constructed,        \* TRUE once Cache.__init__ has returned an instance
    size, block_size, associativity, address_bits,
    num_blocks, num_sets, offset_bits, index_bits, tag_bits,
    cache,              \* [set][way] -> CacheLine
    read_hits, read_misses, write_hits, write_misses,
    evictions, dirty_evictions,
    global_lru_counter,
    ret,                \* the last call on the cache and its outcome
    trace,              \* the accesses that returned, oldest first
    reset_at,           \* Len(trace) when reset_stats was last called (0: never)
    num_entries,        \* TLB: number of entries (0: no TLB was built)
    entries,            \* TLB: index -> TLBEntry
    hits, misses,
    tlb_global_lru_counter,
    page_table,         \* TLB: <<vpn, page_size>> -> ppn
    installed,          \* TLB: <<vpn, page_size>> -> arguments of the latest install_mapping
    tlb_ret,            \* the last call on the TLB and its outcome
    walker,             \* TRUE when a RISCV_Sv39_PageWalker was built
    memory,             \* walker: table address -> (index -> the 8 bytes of the PTE),
                        \*         an index that is absent holds eight zero bytes
    satp,               \* walker: address of the root table
    page_walks, page_faults,
    mapped,             \* walker: va >> 12 -> arguments of the latest map_page that returned
    map_calls,          \* walker: number of map_page calls made
    fault_returns,      \* walker: kind of fault -> the values translate returned for it
    walker_ret,         \* the last call on the walker and its outcome
    visualizer,         \* the VIPTVisualizer instance (NoVisualizer: none was built)
    vipt_ret,           \* the last visualize_vipt call and what it showed
    request,            \* web application: the last request handled
    response            \* web application: the answer to it

geomVars  == <<size, block_size, associativity, address_bits,
               num_blocks, num_sets, offset_bits, index_bits, tag_bits>>
statVars  == <<read_hits, read_misses, write_hits, write_misses,
               evictions, dirty_evictions>>
cacheVars == <<args, constructed, geomVars, cache, statVars,
               global_lru_counter, ret, trace, reset_at>>

tlbVars == <<num_entries, entries, hits, misses, tlb_global_lru_counter,
             page_table, installed, tlb_ret>>

walkerVars == <<walker, memory, satp, page_walks, page_faults, mapped, map_calls,
                fault_returns, walker_ret>>

webVars == <<visualizer, vipt_ret, request, response>>

vars == <<cacheVars, tlbVars, walkerVars, webVars>>

----------------------------------------------------------------------------
(* Bounds and inputs *)

MaxAccesses == 4
MaxTranslates == 3
MaxMappings == 3
MaxWalks == 2
MaxMaps == 2
TLBEntries == 2

READ  == "READ"
WRITE == "WRITE"
AccessType == {READ, WRITE}

None == -1

\* Constructor arguments that are tried: (size, block_size, associativity, address_bits)
Geometry(s, b, a, n) ==
    [size |-> s, block_size |-> b, associativity |-> a, address_bits |-> n]

Geometries ==
    { Geometry(1024, 64, 1, 32),      \* demo_conflict_misses
      Geometry(4096, 64, 4, 32),      \* demo_basic_usage
      Geometry(8, 2, 2, 4),           \* 2 sets x 2 ways
      Geometry(6, 1, 3, 4),           \* 2 sets x 3 ways
      Geometry(8, 1, 3, 4),           \* 8 blocks shared among 3 ways
      Geometry(8, 2, 2, 1),           \* address narrower than offset + index
      Geometry(0, 64, 4, 32),
      Geometry(64, 0, 4, 32),
      Geometry(64, 16, 0, 32),
      Geometry(-64, 16, 1, 32),
      Geometry(100, 64, 1, 32),
      Geometry(96, 48, 1, 32),
      Geometry(192, 64, 1, 32),
      Geometry(64, 16, 8, 32) }

\* addresses of demo_conflict_misses (0x1000, 0x1400) and one more of 0x1000's block
ConflictAddresses == {4096, 4100, 5120}
\* addresses of demo_basic_usage (0x00401000, 0x00401004, 0x00401008, 0x00402000)
BasicAddresses    == {4198400, 4198404, 4198408, 4202496}
SmallAddresses    == {0, 1, 2, 4, 8}

Addresses ==
    IF args.address_bits = 32
    THEN (IF args.associativity = 1 THEN ConflictAddresses ELSE BasicAddresses)
    ELSE SmallAddresses

----------------------------------------------------------------------------
(* Integer helpers for Python's bit operators *)

RECURSIVE Pow2(_)
Pow2(n) == IF n <= 0 THEN 1 ELSE 2 * Pow2(n - 1)

\* a & b on non-negative integers
RECURSIVE BitAnd(_, _)
BitAnd(a, b) ==
    IF a = 0 \/ b = 0 THEN 0
    ELSE (a % 2) * (b % 2) + 2 * BitAnd(a \div 2, b \div 2)

\* int(math.log2(n)) for n >= 1
RECURSIVE Log2(_)
Log2(n) == IF n <= 1 THEN 0 ELSE 1 + Log2(n \div 2)

----------------------------------------------------------------------------
(* Cache *)

CacheLine(v, d, t, l) == [valid |-> v, dirty |-> d, tag |-> t, lru_counter |-> l]

EmptyLine == CacheLine(FALSE, FALSE, 0, 0)

\* variant: accepts every positive number
IsPowerOf2Loose(n) == n > 0

IsPowerOf2(n) == n > 0 /\ BitAnd(n, n - 1) = 0

\* The first check of __init__ that raises, or "ok"
Validate(a) ==
    IF a.size <= 0 \/ a.block_size <= 0 \/ a.associativity <= 0
        THEN "not positive"
    ELSE IF a.size % a.block_size # 0
        THEN "not multiple"
    ELSE IF ~IsPowerOf2(a.block_size)
        THEN "block_size not power of 2"
    ELSE IF ~IsPowerOf2((a.size \div a.block_size) \div a.associativity)
        THEN "sets not power of 2"
    ELSE "ok"

NoCall == [op |-> "none", result |-> "none"]

CacheInit ==
    /\ constructed = FALSE
    /\ size = 0 /\ block_size = 0 /\ associativity = 0 /\ address_bits = 0
    /\ num_blocks = 0 /\ num_sets = 0
    /\ offset_bits = 0 /\ index_bits = 0 /\ tag_bits = 0
    /\ cache = <<>>
    /\ read_hits = 0 /\ read_misses = 0 /\ write_hits = 0 /\ write_misses = 0
    /\ evictions = 0 /\ dirty_evictions = 0
    /\ global_lru_counter = 0
    /\ ret = NoCall
    /\ trace = <<>>
    /\ reset_at = 0

\* no TLB instance
NoTLB ==
    /\ num_entries = 0
    /\ entries = <<>>
    /\ hits = 0 /\ misses = 0
    /\ tlb_global_lru_counter = 0
    /\ page_table = <<>>
    /\ installed = <<>>
    /\ tlb_ret = NoCall

\* FaultType members that name the two ways a translation faults
NOT_PRESENT == "NOT_PRESENT"
PERMISSION_VIOLATION == "PERMISSION_VIOLATION"

NoFaults == [k \in {NOT_PRESENT, PERMISSION_VIOLATION} |-> {}]

NoVisualizer == [built |-> FALSE]

\* no visualizer instance and no request handled
NoWeb ==
    /\ visualizer = NoVisualizer
    /\ vipt_ret = NoCall
    /\ request = NoCall
    /\ response = NoCall

\* no page walker instance
NoWalker ==
    /\ walker = FALSE
    /\ memory = <<>>
    /\ satp = 0
    /\ page_walks = 0 /\ page_faults = 0
    /\ mapped = <<>>
    /\ map_calls = 0
    /\ fault_returns = NoFaults
    /\ walker_ret = NoCall

Init ==
    /\ args \in Geometries
    /\ CacheInit
    /\ NoTLB
    /\ NoWalker
    /\ NoWeb

\* Cache.__init__
Construct ==
    /\ UNCHANGED <<tlbVars, walkerVars, webVars>>
    /\ ~constructed
    /\ ret.op = "none"
    /\ IF Validate(args) # "ok"
       THEN /\ ret' = [op |-> "__init__", result |-> "ValueError"]
            /\ UNCHANGED <<args, reset_at, constructed, geomVars, cache, statVars,
                           global_lru_counter, trace>>
       ELSE LET nb == args.size \div args.block_size
                ns == nb \div args.associativity
                ob == Log2(args.block_size)
                ib == Log2(ns)
            IN  /\ constructed' = TRUE
                /\ size' = args.size
                /\ block_size' = args.block_size
                /\ associativity' = args.associativity
                /\ address_bits' = args.address_bits
                /\ num_blocks' = nb
                /\ num_sets' = ns
                /\ offset_bits' = ob
                /\ index_bits' = ib
                /\ tag_bits' = args.address_bits - ib - ob
                /\ cache' = [s \in 0..(ns - 1) |->
                                [w \in 0..(args.associativity - 1) |-> EmptyLine]]
                /\ read_hits' = 0 /\ read_misses' = 0
                /\ write_hits' = 0 /\ write_misses' = 0
                /\ evictions' = 0 /\ dirty_evictions' = 0
                /\ global_lru_counter' = 0
                /\ ret' = [op |-> "__init__", result |-> "ok"]
                /\ UNCHANGED <<args, reset_at, trace>>

\* variant: the index is taken from the bits above the index field
DecomposeAddressIndexHigh(address) ==
    [tag    |-> (address \div Pow2(offset_bits + index_bits)) % Pow2(tag_bits),
     index  |-> (address \div Pow2(offset_bits + index_bits)) % Pow2(index_bits),
     offset |-> address % Pow2(offset_bits)]

\* variant: the offset bits are not shifted out before the index is taken
DecomposeAddressKeepOffset(address) ==
    [tag    |-> (address \div Pow2(index_bits)) % Pow2(tag_bits),
     index  |-> address % Pow2(index_bits),
     offset |-> address % Pow2(offset_bits)]

\* _decompose_address; defined when tag_bits >= 0 (1 << tag_bits raises otherwise)
DecomposeAddress(address) ==
    [tag    |-> (address \div Pow2(offset_bits + index_bits)) % Pow2(tag_bits),
     index  |-> (address \div Pow2(offset_bits)) % Pow2(index_bits),
     offset |-> address % Pow2(offset_bits)]

\* variant: the scan stops one way short
RECURSIVE FindLineFromShort(_, _, _, _)
FindLineFromShort(c, set_idx, tag, way) ==
    IF way >= associativity - 1 THEN None
    ELSE IF c[set_idx][way].valid /\ c[set_idx][way].tag = tag THEN way
    ELSE FindLineFromShort(c, set_idx, tag, way + 1)

\* _find_line: the first way, in way order, holding a valid line with the tag
RECURSIVE FindLineFrom(_, _, _, _)
FindLineFrom(c, set_idx, tag, way) ==
    IF way >= associativity THEN None
    ELSE IF c[set_idx][way].valid /\ c[set_idx][way].tag = tag THEN way
    ELSE FindLineFrom(c, set_idx, tag, way + 1)

\* variant: the scan starts at way 1
FindLineSkipFirst(c, set_idx, tag) == FindLineFrom(c, set_idx, tag, 1)

FindLine(c, set_idx, tag) == FindLineFrom(c, set_idx, tag, 0)

\* variant: the last invalid way is taken
RECURSIVE FirstInvalidFromTop(_, _, _)
FirstInvalidFromTop(c, set_idx, way) ==
    IF way >= associativity THEN None
    ELSE IF FirstInvalidFromTop(c, set_idx, way + 1) # None
         THEN FirstInvalidFromTop(c, set_idx, way + 1)
    ELSE IF ~c[set_idx][way].valid THEN way
    ELSE None

\* first loop of _find_victim: the first invalid way, or None
RECURSIVE FirstInvalid(_, _, _)
FirstInvalid(c, set_idx, way) ==
    IF way >= associativity THEN None
    ELSE IF ~c[set_idx][way].valid THEN way
    ELSE FirstInvalid(c, set_idx, way + 1)

\* variant: the scan keeps the larger counter (evicts the most recently used)
RECURSIVE LruScanNewest(_, _, _, _, _)
LruScanNewest(c, set_idx, way, lru_way, min_lru) ==
    IF way >= associativity THEN lru_way
    ELSE IF c[set_idx][way].lru_counter > min_lru
         THEN LruScanNewest(c, set_idx, way + 1, way, c[set_idx][way].lru_counter)
         ELSE LruScanNewest(c, set_idx, way + 1, lru_way, min_lru)

\* second loop of _find_victim: scan ways 1.. keeping the strictly smaller counter
RECURSIVE LruScan(_, _, _, _, _)
LruScan(c, set_idx, way, lru_way, min_lru) ==
    IF way >= associativity THEN lru_way
    ELSE IF c[set_idx][way].lru_counter < min_lru
         THEN LruScan(c, set_idx, way + 1, way, c[set_idx][way].lru_counter)
         ELSE LruScan(c, set_idx, way + 1, lru_way, min_lru)

FindVictim(c, set_idx) ==
    IF FirstInvalid(c, set_idx, 0) # None
    THEN FirstInvalid(c, set_idx, 0)
    ELSE LruScan(c, set_idx, 1, 0, c[set_idx][0].lru_counter)

\* variant: a read hit leaves the line clean
HitLineReadCleans(line, access_type, counter) ==
    [line EXCEPT !.dirty = (access_type = WRITE), !.lru_counter = counter]

\* the hit branch of access: a write sets dirty, _update_lru stamps the line
HitLine(line, access_type, counter) ==
    [line EXCEPT !.dirty = IF access_type = READ THEN @ ELSE TRUE,
                 !.lru_counter = counter]

\* variant: the line is stamped with the counter's value before the increment
InstalledLineOldStamp(line, tag, access_type, counter) ==
    [line EXCEPT !.valid = TRUE, !.tag = tag,
                 !.dirty = (access_type = WRITE), !.lru_counter = counter - 1]

\* variant: the dirty bit of the replaced line survives
InstalledLineKeepsDirty(line, tag, access_type, counter) ==
    [line EXCEPT !.valid = TRUE, !.tag = tag,
                 !.dirty = @ \/ (access_type = WRITE), !.lru_counter = counter]

\* the miss branch of access: the victim line is overwritten in place
InstalledLine(line, tag, access_type, counter) ==
    [line EXCEPT !.valid = TRUE, !.tag = tag,
                 !.dirty = (access_type = WRITE), !.lru_counter = counter]

\* Cache.access(address, access_type, verbose)
Access(address, access_type, verbose) ==
    /\ UNCHANGED <<tlbVars, walkerVars, webVars>>
    /\ constructed
    /\ Len(trace) < MaxAccesses
    /\ IF tag_bits < 0
       THEN \* _decompose_address raises: negative shift count
            /\ ret' = [op |-> "access", address |-> address,
                       access_type |-> access_type, verbose |-> verbose,
                       result |-> "ValueError"]
            /\ UNCHANGED <<args, reset_at, constructed, geomVars, cache, statVars,
                           global_lru_counter, trace>>
       ELSE LET d     == DecomposeAddress(address)
                index == d.index
                tag   == d.tag
                way   == FindLine(cache, index, tag)
            IN  IF way # None
                THEN \* hit
                     /\ read_hits'  = IF access_type = READ THEN read_hits + 1 ELSE read_hits
                     /\ write_hits' = IF access_type = READ THEN write_hits ELSE write_hits + 1
                     /\ global_lru_counter' = global_lru_counter + 1
                     /\ cache' = [cache EXCEPT ![index][way] =
                            HitLine(@, access_type, global_lru_counter + 1)]
                     /\ ret' = [op |-> "access", address |-> address,
                                access_type |-> access_type, verbose |-> verbose,
                                result |-> "hit"]
                     /\ trace' = Append(trace, <<access_type, address, "hit">>)
                     /\ UNCHANGED <<args, reset_at, constructed, geomVars, read_misses,
                                    write_misses, evictions, dirty_evictions>>
                ELSE \* miss
                     LET victim_way  == FindVictim(cache, index)
                         victim_line == cache[index][victim_way]
                     IN  /\ read_misses'  = IF access_type = READ THEN read_misses + 1 ELSE read_misses
                         /\ write_misses' = IF access_type = READ THEN write_misses ELSE write_misses + 1
                         /\ dirty_evictions' =
                                IF verbose /\ victim_line.valid /\ victim_line.dirty
                                THEN dirty_evictions + 1 ELSE dirty_evictions
                         /\ evictions' = IF victim_line.valid THEN evictions + 1 ELSE evictions
                         /\ global_lru_counter' = global_lru_counter + 1
                         /\ cache' = [cache EXCEPT ![index][victim_way] =
                                InstalledLine(@, tag, access_type,
                                              global_lru_counter + 1)]
                         /\ ret' = [op |-> "access", address |-> address,
                                    access_type |-> access_type, verbose |-> verbose,
                                    result |-> "miss"]
                         /\ trace' = Append(trace, <<access_type, address, "miss">>)
                         /\ UNCHANGED <<args, reset_at, constructed, geomVars, read_hits, write_hits>>

AccessAny ==
    \E address \in Addresses, access_type \in AccessType, verbose \in BOOLEAN :
        Access(address, access_type, verbose)

Next == Construct \/ AccessAny

Spec == Init /\ [][Next]_vars

\* variant: the eviction counter survives the reset
ResetStatsKeepsEvictions ==
    /\ constructed
    /\ read_hits' = 0 /\ read_misses' = 0
    /\ write_hits' = 0 /\ write_misses' = 0
    /\ dirty_evictions' = 0
    /\ ret' = [op |-> "reset_stats", result |-> None]
    /\ reset_at' = Len(trace)
    /\ UNCHANGED <<args, constructed, geomVars, cache, evictions,
                   global_lru_counter, trace>>
    /\ UNCHANGED <<tlbVars, walkerVars, webVars>>

\* variant: the reset also empties the lines
ResetStatsClearsLines ==
    /\ constructed
    /\ read_hits' = 0 /\ read_misses' = 0
    /\ write_hits' = 0 /\ write_misses' = 0
    /\ evictions' = 0 /\ dirty_evictions' = 0
    /\ cache' = [s \in DOMAIN cache |-> [w \in DOMAIN cache[s] |-> EmptyLine]]
    /\ ret' = [op |-> "reset_stats", result |-> None]
    /\ reset_at' = Len(trace)
    /\ UNCHANGED <<args, constructed, geomVars, global_lru_counter, trace>>
    /\ UNCHANGED <<tlbVars, walkerVars, webVars>>

\* Cache.reset_stats
ResetStats ==
    /\ constructed
    /\ read_hits' = 0 /\ read_misses' = 0
    /\ write_hits' = 0 /\ write_misses' = 0
    /\ evictions' = 0 /\ dirty_evictions' = 0
    /\ ret' = [op |-> "reset_stats", result |-> None]
    /\ reset_at' = Len(trace)
    /\ UNCHANGED <<args, constructed, geomVars, cache, global_lru_counter, trace>>
    /\ UNCHANGED <<tlbVars, walkerVars, webVars>>

\* three blocks of set 0, one more than the set has ways
ResetAddresses == {0, 4, 8}

\* Cache(size=8, block_size=2, associativity=2, address_bits=4) before __init__ runs
ResetInit ==
    /\ args = Geometry(8, 2, 2, 4)
    /\ CacheInit
    /\ NoTLB
    /\ NoWalker
    /\ NoWeb

ResetAccessAny ==
    \E address \in ResetAddresses, access_type \in AccessType, verbose \in BOOLEAN :
        Access(address, access_type, verbose)

ResetNext == Construct \/ ResetAccessAny \/ ResetStats

\* a cache that is accessed and whose statistics are reset at any time
ResetSpec == ResetInit /\ [][ResetNext]_vars

----------------------------------------------------------------------------
(* TLB *)

KB_4 == "KB_4"
MB_2 == "MB_2"
GB_1 == "GB_1"
PageSize == {KB_4, MB_2, GB_1}

\* PageSize.offset_bits
PageOffsetBits(page_size) ==
    CASE page_size = KB_4 -> 12
      [] page_size = MB_2 -> 21
      [] page_size = GB_1 -> 30

TLBEntry(v, vpn, ppn, ps, r, w, x, d, a, g, l) ==
    [valid |-> v, vpn |-> vpn, ppn |-> ppn, page_size |-> ps,
     readable |-> r, writable |-> w, executable |-> x,
     dirty |-> d, accessed |-> a, global_page |-> g, lru_counter |-> l]

\* TLBEntry() with the dataclass defaults
DefaultEntry == TLBEntry(FALSE, 0, 0, KB_4, TRUE, TRUE, FALSE, FALSE, FALSE, FALSE, 0)

\* virtual and physical addresses handed to the TLB; the one-entry TLB is
\* driven with every page size, two addresses in one page and both
\* settings of writable
TLBVirtualAddresses ==
    IF num_entries = 1 THEN {4660, 6844}             \* 0x1234, 0x1ABC
    ELSE {4660, 2097152}
TLBPhysicalAddresses ==
    IF num_entries = 1 THEN {1077936128}             \* 0x40400000
    ELSE {4194304}                                   \* 0x400000
TLBPageSizes ==
    IF num_entries = 1 THEN PageSize ELSE {KB_4, MB_2}
TLBWritables ==
    IF num_entries = 1 THEN BOOLEAN ELSE {TRUE}

ExtractVpn(va, page_size) == va \div Pow2(PageOffsetBits(page_size))

\* variant: the offset is always taken as a 4KB-page offset
ExtractOffsetSmallPage(va, page_size) == va % Pow2(12)

ExtractOffset(va, page_size) == va % Pow2(PageOffsetBits(page_size))

\* (ppn << offset_bits) | offset, with offset < 2^offset_bits
ConstructPa(ppn, offset, page_size) == ppn * Pow2(PageOffsetBits(page_size)) + offset

\* TLB._find_entry: the first valid entry, in index order, matching vpn and page size
RECURSIVE FindEntryFrom(_, _, _, _)
FindEntryFrom(es, vpn, page_size, i) ==
    IF i >= num_entries THEN None
    ELSE IF es[i].valid /\ es[i].vpn = vpn /\ es[i].page_size = page_size THEN i
    ELSE FindEntryFrom(es, vpn, page_size, i + 1)

\* variant: the scan starts at entry 1
FindEntrySkipFirst(es, vpn, page_size) == FindEntryFrom(es, vpn, page_size, 1)

FindEntry(es, vpn, page_size) == FindEntryFrom(es, vpn, page_size, 0)

RECURSIVE FirstInvalidEntry(_, _)
FirstInvalidEntry(es, i) ==
    IF i >= num_entries THEN None
    ELSE IF ~es[i].valid THEN i
    ELSE FirstInvalidEntry(es, i + 1)

\* variant: the scan keeps the entry with the largest lru_counter
RECURSIVE LruEntryScanNewest(_, _, _, _)
LruEntryScanNewest(es, i, lru_idx, min_lru) ==
    IF i >= num_entries THEN lru_idx
    ELSE IF es[i].lru_counter > min_lru
         THEN LruEntryScanNewest(es, i + 1, i, es[i].lru_counter)
         ELSE LruEntryScanNewest(es, i + 1, lru_idx, min_lru)

RECURSIVE LruEntryScan(_, _, _, _)
LruEntryScan(es, i, lru_idx, min_lru) ==
    IF i >= num_entries THEN lru_idx
    ELSE IF es[i].lru_counter < min_lru
         THEN LruEntryScan(es, i + 1, i, es[i].lru_counter)
         ELSE LruEntryScan(es, i + 1, lru_idx, min_lru)

\* TLB._find_victim
FindVictimEntry(es) ==
    IF FirstInvalidEntry(es, 0) # None
    THEN FirstInvalidEntry(es, 0)
    ELSE LruEntryScan(es, 1, 0, es[0].lru_counter)

\* variant: an absent key reads as page number 0
PageWalkDefaultZero(vpn, page_size) ==
    IF <<vpn, page_size>> \in DOMAIN page_table
    THEN page_table[<<vpn, page_size>>]
    ELSE 0

\* TLB._page_walk: dictionary lookup, None when the key is absent
PageWalk(vpn, page_size) ==
    IF <<vpn, page_size>> \in DOMAIN page_table
    THEN page_table[<<vpn, page_size>>]
    ELSE None

\* TLB.__init__, no cache instance
TLBInit ==
    /\ args = Geometry(4096, 64, 4, 32)
    /\ CacheInit
    /\ num_entries = TLBEntries
    /\ entries = [i \in 0..(TLBEntries - 1) |-> DefaultEntry]
    /\ hits = 0 /\ misses = 0
    /\ tlb_global_lru_counter = 0
    /\ page_table = <<>>
    /\ installed = <<>>
    /\ tlb_ret = NoCall
    /\ NoWalker
    /\ NoWeb

\* variant: a valid entry that caches the page takes the new page number
InstallMappingRefreshesEntry(va, pa, page_size, readable, writable, executable) ==
    LET vpn == ExtractVpn(va, page_size)
        ppn == ExtractVpn(pa, page_size)
        key == <<vpn, page_size>>
    IN  /\ num_entries > 0
        /\ key \in DOMAIN page_table \/ Cardinality(DOMAIN page_table) < MaxMappings
        /\ page_table' = [k \in (DOMAIN page_table) \cup {key} |->
                             IF k = key THEN ppn ELSE page_table[k]]
        /\ installed' = [k \in (DOMAIN installed) \cup {key} |->
                             IF k = key THEN [pa |-> pa, writable |-> writable]
                             ELSE installed[k]]
        /\ entries' = [i \in DOMAIN entries |->
                          IF entries[i].valid /\ entries[i].vpn = vpn
                                /\ entries[i].page_size = page_size
                          THEN [entries[i] EXCEPT !.ppn = ppn] ELSE entries[i]]
        /\ tlb_ret' = [op |-> "install_mapping"]
        /\ UNCHANGED <<num_entries, hits, misses, tlb_global_lru_counter>>
        /\ UNCHANGED <<cacheVars, walkerVars, webVars>>

\* TLB.install_mapping: only the page table changes, the permissions are dropped
InstallMapping(va, pa, page_size, readable, writable, executable) ==
    LET vpn == ExtractVpn(va, page_size)
        ppn == ExtractVpn(pa, page_size)
        key == <<vpn, page_size>>
    IN  /\ num_entries > 0
        /\ key \in DOMAIN page_table \/ Cardinality(DOMAIN page_table) < MaxMappings
        /\ page_table' = [k \in (DOMAIN page_table) \cup {key} |->
                             IF k = key THEN ppn ELSE page_table[k]]
        /\ installed' = [k \in (DOMAIN installed) \cup {key} |->
                             IF k = key THEN [pa |-> pa, writable |-> writable]
                             ELSE installed[k]]
        /\ tlb_ret' = [op |-> "install_mapping"]
        /\ UNCHANGED <<num_entries, entries, hits, misses, tlb_global_lru_counter>>
        /\ UNCHANGED <<cacheVars, walkerVars, webVars>>

\* variant: a read hit leaves the entry clean
HitEntryReadCleans(entry, is_write, counter) ==
    [entry EXCEPT !.lru_counter = counter, !.accessed = TRUE, !.dirty = is_write]

\* the entry a hit leaves: _update_lru, accessed set, dirty set by a write
HitEntry(entry, is_write, counter) ==
    [entry EXCEPT !.lru_counter = counter, !.accessed = TRUE,
                  !.dirty = IF is_write THEN TRUE ELSE @]

\* variant: the entry is installed as a global page
InstalledEntryGlobal(vpn, ppn, page_size, is_write, counter) ==
    TLBEntry(TRUE, vpn, ppn, page_size, TRUE, TRUE, FALSE, is_write, TRUE, TRUE, counter)

\* the TLBEntry a miss installs, stamped by _update_lru
InstalledEntry(vpn, ppn, page_size, is_write, counter) ==
    TLBEntry(TRUE, vpn, ppn, page_size, TRUE, TRUE, FALSE, is_write, TRUE, FALSE, counter)

\* TLB.translate; pa = None is the fault return
Translate(va, page_size, is_write) ==
    LET vpn       == ExtractVpn(va, page_size)
        offset    == ExtractOffset(va, page_size)
        entry_idx == FindEntry(entries, vpn, page_size)
        call      == [op |-> "translate", va |-> va, page_size |-> page_size,
                      is_write |-> is_write]
    IN  /\ num_entries > 0
        /\ hits + misses < MaxTranslates
        /\ UNCHANGED <<num_entries, page_table, installed>>
        /\ UNCHANGED <<cacheVars, walkerVars, webVars>>
        /\ IF entry_idx # None
           THEN \* TLB hit
                /\ hits' = hits + 1
                /\ UNCHANGED misses
                /\ IF is_write /\ ~entries[entry_idx].writable
                   THEN /\ tlb_ret' = call @@
                                      [outcome |-> "hit", pa |-> None, evicted |-> None]
                        /\ UNCHANGED <<entries, tlb_global_lru_counter>>
                   ELSE /\ tlb_global_lru_counter' = tlb_global_lru_counter + 1
                        /\ entries' = [entries EXCEPT ![entry_idx] =
                               HitEntry(@, is_write, tlb_global_lru_counter + 1)]
                        /\ tlb_ret' = call @@ [outcome |-> "hit", evicted |-> None,
                               pa |-> ConstructPa(entries[entry_idx].ppn, offset, page_size)]
           ELSE \* TLB miss
                LET ppn == PageWalk(vpn, page_size) IN
                /\ misses' = misses + 1
                /\ UNCHANGED hits
                /\ IF ppn = None
                   THEN /\ tlb_ret' = call @@ [outcome |-> "miss", pa |-> None,
                                                evicted |-> None]
                        /\ UNCHANGED <<entries, tlb_global_lru_counter>>
                   ELSE LET victim_idx == FindVictimEntry(entries) IN
                        /\ tlb_global_lru_counter' = tlb_global_lru_counter + 1
                        /\ entries' = [entries EXCEPT ![victim_idx] =
                               InstalledEntry(vpn, ppn, page_size, is_write,
                                              tlb_global_lru_counter + 1)]
                        \* evicted: the index the code reports as evicted, if any
                        /\ tlb_ret' = call @@ [outcome |-> "miss",
                               pa |-> ConstructPa(ppn, offset, page_size),
                               evicted |-> IF entries[victim_idx].valid
                                           THEN victim_idx ELSE None]

\* variant: a match clears every entry
InvalidateClearsAll(va, page_size) ==
    LET vpn       == ExtractVpn(va, page_size)
        entry_idx == FindEntry(entries, vpn, page_size)
    IN  /\ num_entries > 0
        /\ IF entry_idx # None
           THEN /\ entries' = [i \in DOMAIN entries |->
                                  [entries[i] EXCEPT !.valid = FALSE]]
                /\ tlb_ret' = [op |-> "invalidate", found |-> TRUE]
           ELSE /\ UNCHANGED entries
                /\ tlb_ret' = [op |-> "invalidate", found |-> FALSE]
        /\ UNCHANGED <<num_entries, hits, misses, tlb_global_lru_counter, page_table,
                       installed>>
        /\ UNCHANGED <<cacheVars, walkerVars, webVars>>

\* TLB.invalidate
Invalidate(va, page_size) ==
    LET vpn       == ExtractVpn(va, page_size)
        entry_idx == FindEntry(entries, vpn, page_size)
    IN  /\ num_entries > 0
        /\ IF entry_idx # None
           THEN /\ entries' = [entries EXCEPT ![entry_idx].valid = FALSE]
                /\ tlb_ret' = [op |-> "invalidate", found |-> TRUE]
           ELSE /\ UNCHANGED entries
                /\ tlb_ret' = [op |-> "invalidate", found |-> FALSE]
        /\ UNCHANGED <<num_entries, hits, misses, tlb_global_lru_counter, page_table,
                       installed>>
        /\ UNCHANGED <<cacheVars, walkerVars, webVars>>

\* variant: entry 0 is left alone
FlushKeepsFirst ==
    /\ num_entries > 0
    /\ entries' = [i \in DOMAIN entries |->
                      IF ~entries[i].global_page /\ i # 0
                      THEN [entries[i] EXCEPT !.valid = FALSE]
                      ELSE entries[i]]
    /\ tlb_ret' = [op |-> "flush",
                   invalidated |-> Cardinality({i \in DOMAIN entries :
                       entries[i].valid /\ ~entries[i].global_page})]
    /\ UNCHANGED <<num_entries, hits, misses, tlb_global_lru_counter, page_table,
                   installed>>
    /\ UNCHANGED <<cacheVars, walkerVars, webVars>>

\* TLB.flush
Flush ==
    /\ num_entries > 0
    /\ entries' = [i \in DOMAIN entries |->
                      IF ~entries[i].global_page
                      THEN [entries[i] EXCEPT !.valid = FALSE]
                      ELSE entries[i]]
    \* invalidated: how many valid entries the call cleared
    /\ tlb_ret' = [op |-> "flush",
                   invalidated |-> Cardinality({i \in DOMAIN entries :
                       entries[i].valid /\ ~entries[i].global_page})]
    /\ UNCHANGED <<num_entries, hits, misses, tlb_global_lru_counter, page_table,
                       installed>>
    /\ UNCHANGED <<cacheVars, walkerVars, webVars>>

InstallMappingAny ==
    \E va \in TLBVirtualAddresses, pa \in TLBPhysicalAddresses,
       page_size \in TLBPageSizes, writable \in TLBWritables :
        InstallMapping(va, pa, page_size, TRUE, writable, FALSE)

TranslateAny ==
    \E va \in TLBVirtualAddresses, page_size \in TLBPageSizes, is_write \in BOOLEAN :
        Translate(va, page_size, is_write)

InvalidateAny ==
    \E va \in TLBVirtualAddresses, page_size \in TLBPageSizes :
        Invalidate(va, page_size)

TLBNext == InstallMappingAny \/ TranslateAny \/ InvalidateAny \/ Flush

TLBSpec == TLBInit /\ [][TLBNext]_vars

\* TLB(num_entries=1)
SmallTLBInit ==
    /\ args = Geometry(4096, 64, 4, 32)
    /\ CacheInit
    /\ num_entries = 1
    /\ entries = [i \in 0..0 |-> DefaultEntry]
    /\ hits = 0 /\ misses = 0
    /\ tlb_global_lru_counter = 0
    /\ page_table = <<>>
    /\ installed = <<>>
    /\ tlb_ret = NoCall
    /\ NoWalker
    /\ NoWeb

SmallTLBSpec == SmallTLBInit /\ [][TLBNext]_vars

\* two 4KB pages and two physical pages a page can be mapped to
RemapVirtualAddresses == {4660, 8756}             \* 0x1234, 0x2234
RemapPhysicalAddresses == {4194304, 8388608}      \* 0x400000, 0x800000

RemapInstallAny ==
    \E va \in RemapVirtualAddresses, pa \in RemapPhysicalAddresses :
        InstallMapping(va, pa, KB_4, TRUE, TRUE, FALSE)

RemapTranslateAny == \E va \in RemapVirtualAddresses : Translate(va, KB_4, FALSE)

RemapInvalidateAny == \E va \in RemapVirtualAddresses : Invalidate(va, KB_4)

RemapNext == RemapInstallAny \/ RemapTranslateAny \/ RemapInvalidateAny \/ Flush

\* TLB(num_entries=1) whose pages are mapped again while they are cached
RemapSpec == SmallTLBInit /\ [][RemapNext]_vars

\* str.upper() on the page-size words typed at the prompt
Upper(word) ==
    CASE word = "4kb" -> "4KB"
      [] word = "2mb" -> "2MB"
      [] word = "1gb" -> "1GB"
      [] OTHER -> word

\* the page size main() takes from the words after the addresses of a
\* translate or map command: KB_4 unless the first word is 2MB or 1GB
CommandPageSize(words) ==
    IF Len(words) > 0
    THEN IF Upper(words[1]) = "2MB" THEN MB_2
         ELSE IF Upper(words[1]) = "1GB" THEN GB_1
         ELSE KB_4
    ELSE KB_4

\* the words typed after the addresses: none, a known size in either case, and
\* sizes PageSize does not have
CommandWords == {<<>>, <<"2MB">>, <<"1gb">>, <<"4MB">>, <<"16KB">>}

\* main(), interactive mode: "translate <va> [page-size]"
CommandTranslate(va, words) == Translate(va, CommandPageSize(words), FALSE)

\* main(), interactive mode: "map <va> <pa> [page-size]"
CommandMap(va, pa, words) ==
    InstallMapping(va, pa, CommandPageSize(words), TRUE, TRUE, FALSE)

\* main(), interactive mode: "invalidate <va>", page_size left at its default
CommandInvalidate(va) == Invalidate(va, KB_4)

CommandTranslateAny ==
    \E va \in TLBVirtualAddresses, words \in CommandWords : CommandTranslate(va, words)

CommandMapAny ==
    \E va \in TLBVirtualAddresses, pa \in TLBPhysicalAddresses, words \in CommandWords :
        CommandMap(va, pa, words)

CommandInvalidateAny == \E va \in TLBVirtualAddresses : CommandInvalidate(va)

\* the command loop of main(): one command per step ("flush" is tlb.flush())
CommandNext == CommandTranslateAny \/ CommandMapAny \/ CommandInvalidateAny \/ Flush

\* main() --interactive: TLB(num_entries=args.entries), then the command loop
CommandSpec == TLBInit /\ [][CommandNext]_vars

----------------------------------------------------------------------------
(* RISC-V Sv39 page walker *)

PageTableEntry(v, ppn, r, w, x, u, g, a, d, leaf) ==
    [valid |-> v, ppn |-> ppn, readable |-> r, writable |-> w, executable |-> x,
     user |-> u, global_page |-> g, accessed |-> a, dirty |-> d, is_leaf |-> leaf]

\* addresses random.randint(0x10000, 0xFFFFFF) & ~0xFFF can return
TableAddresses == {65536, 69632, 73728}          \* 0x10000, 0x11000, 0x12000

\* (va, pa) pairs handed to map_page: two pages under different level-1 entries
WalkerMappings ==
    { <<4198400, 305418240>>,     \* 0x401000 -> 0x12345000 (demo_sv39_basic)
      <<0, 4096>> }               \* 0x0 -> 0x1000

\* virtual addresses handed to translate
WalkerVirtualAddresses ==
    {4198964, 564, 5242880}       \* 0x401234, 0x234, 0x500000

\* int.to_bytes(n, byteorder='little')
RECURSIVE ToBytes(_, _)
ToBytes(value, n) ==
    IF n = 0 THEN <<>> ELSE <<value % 256>> \o ToBytes(value \div 256, n - 1)

\* int.from_bytes(bytes, byteorder='little')
RECURSIVE FromBytes(_)
FromBytes(bytes) ==
    IF bytes = <<>> THEN 0 ELSE Head(bytes) + 256 * FromBytes(Tail(bytes))

ZeroPte == <<0, 0, 0, 0, 0, 0, 0, 0>>

Bit(b) == IF b THEN 1 ELSE 0

\* bit k of value
TestBit(value, k) == (value \div Pow2(k)) % 2 = 1

\* _allocate_page_table: the table at pa is (re)created, all zero
AllocatePageTable(mem, pa) ==
    [t \in (DOMAIN mem) \cup {pa} |-> IF t = pa THEN <<>> ELSE mem[t]]

\* variant: the user and global flags stored in each other's bit
PteValueUserGlobalSwapped(pte) ==
    pte.ppn * 1024
        + Bit(pte.valid) + 2 * Bit(pte.readable) + 4 * Bit(pte.writable)
        + 8 * Bit(pte.executable) + 32 * Bit(pte.user) + 16 * Bit(pte.global_page)
        + 64 * Bit(pte.accessed) + 128 * Bit(pte.dirty)

\* the PTE encoding of _write_pte: (ppn << 10) | flags
PteValue(pte) ==
    pte.ppn * 1024
        + Bit(pte.valid) + 2 * Bit(pte.readable) + 4 * Bit(pte.writable)
        + 8 * Bit(pte.executable) + 16 * Bit(pte.user) + 32 * Bit(pte.global_page)
        + 64 * Bit(pte.accessed) + 128 * Bit(pte.dirty)

\* _write_pte, for a table that exists
WritePte(mem, table_pa, index, pte) ==
    [mem EXCEPT ![table_pa] =
        [i \in (DOMAIN @) \cup {index} |->
            IF i = index THEN ToBytes(PteValue(pte), 8) ELSE @[i]]]

\* the 8 bytes at table_pa[index * 8 : index * 8 + 8]
PteBytes(mem, table_pa, index) ==
    IF index \in DOMAIN mem[table_pa] THEN mem[table_pa][index] ELSE ZeroPte

\* _read_pte, for a table that exists
ReadPte(mem, table_pa, index) ==
    LET pte_value == FromBytes(PteBytes(mem, table_pa, index)) IN
    PageTableEntry(TestBit(pte_value, 0), pte_value \div 1024,
                   TestBit(pte_value, 1), TestBit(pte_value, 2), TestBit(pte_value, 3),
                   TestBit(pte_value, 4), TestBit(pte_value, 5), TestBit(pte_value, 6),
                   TestBit(pte_value, 7),
                   TestBit(pte_value, 1) \/ TestBit(pte_value, 2) \/ TestBit(pte_value, 3))

\* _decompose_va
DecomposeVa(va) ==
    [vpn2 |-> (va \div Pow2(30)) % 512, vpn1 |-> (va \div Pow2(21)) % 512,
     vpn0 |-> (va \div Pow2(12)) % 512, offset |-> va % 4096]

\* PageTableEntry(valid=True, ppn=table_pa >> 12, is_leaf=False)
PointerPte(table_pa) ==
    PageTableEntry(TRUE, table_pa \div 4096, FALSE, FALSE, FALSE, FALSE, FALSE,
                   FALSE, FALSE, FALSE)

\* variant: the offset kept under a large page is the 4KB-page offset
SuperpagePaPageOffset(ppn, va, bits) == ppn * Pow2(bits) + (va % 4096)

\* (ppn << bits) | (va & (2^bits - 1))
SuperpagePa(ppn, va, bits) == ppn * Pow2(bits) + (va % Pow2(bits))

\* RISCV_Sv39_PageWalker.__init__
WalkerInit ==
    /\ args = Geometry(4096, 64, 4, 32)
    /\ CacheInit
    /\ NoTLB
    /\ NoWeb
    /\ walker = TRUE
    /\ satp \in TableAddresses
    /\ memory = AllocatePageTable(<<>>, satp)
    /\ page_walks = 0 /\ page_faults = 0
    /\ mapped = <<>>
    /\ map_calls = 0
    /\ fault_returns = NoFaults
    /\ walker_ret = NoCall

\* map_page, with l1_new and l0_new the addresses _allocate_page_table returns
\* if it is called; a table that does not exist raises KeyError and the
\* writes made before it stay
MapPageWith(va, pa, readable, writable, executable, user, l1_new, l0_new) ==
    /\ walker
    /\ map_calls < MaxMaps
    /\ map_calls' = map_calls + 1
    /\ UNCHANGED <<walker, satp, page_walks, page_faults, fault_returns>>
    /\ UNCHANGED <<cacheVars, tlbVars, webVars>>
    /\ \E d \in {DecomposeVa(va)} :
       \E pte_l2 \in {ReadPte(memory, satp, d.vpn2)} :
       \E mem1 \in {IF ~pte_l2.valid
                    THEN WritePte(AllocatePageTable(memory, l1_new), satp, d.vpn2,
                                  PointerPte(l1_new))
                    ELSE memory} :
       \E l1_pa \in {IF ~pte_l2.valid THEN PointerPte(l1_new).ppn * 4096
                     ELSE pte_l2.ppn * 4096} :
         IF l1_pa \notin DOMAIN mem1
         THEN /\ memory' = mem1
              /\ walker_ret' = [op |-> "map_page", va |-> va, result |-> "KeyError",
                                allocated |-> <<>>]
              /\ UNCHANGED mapped
         ELSE
       \E pte_l1 \in {ReadPte(mem1, l1_pa, d.vpn1)} :
       \E mem2 \in {IF ~pte_l1.valid
                    THEN WritePte(AllocatePageTable(mem1, l0_new), l1_pa, d.vpn1,
                                  PointerPte(l0_new))
                    ELSE mem1} :
       \E l0_pa \in {IF ~pte_l1.valid THEN PointerPte(l0_new).ppn * 4096
                     ELSE pte_l1.ppn * 4096} :
       \E allocated \in {(IF ~pte_l2.valid THEN <<l1_new>> ELSE <<>>)
                             \o (IF ~pte_l1.valid THEN <<l0_new>> ELSE <<>>)} :
         IF l0_pa \notin DOMAIN mem2
         THEN /\ memory' = mem2
              /\ walker_ret' = [op |-> "map_page", va |-> va, result |-> "KeyError",
                                allocated |-> allocated]
              /\ UNCHANGED mapped
         ELSE /\ memory' = WritePte(mem2, l0_pa, d.vpn0,
                              PageTableEntry(TRUE, pa \div 4096, readable, writable,
                                             executable, user, FALSE, FALSE, FALSE, TRUE))
              /\ walker_ret' = [op |-> "map_page", va |-> va, result |-> "ok",
                                allocated |-> allocated]
              /\ mapped' = [k \in (DOMAIN mapped) \cup {va \div 4096} |->
                               IF k = va \div 4096 THEN [pa |-> pa, writable |-> writable]
                               ELSE mapped[k]]

MapPage(va, pa, readable, writable, executable, user) ==
    \E l1_new \in TableAddresses, l0_new \in TableAddresses :
        MapPageWith(va, pa, readable, writable, executable, user, l1_new, l0_new)

\* variant: a valid root PTE is written back with its accessed bit set
WalkerTranslateSetsAccessed(va, is_write) ==
    LET call == [op |-> "translate", va |-> va, is_write |-> is_write]
        \* every fault is the same `return None`; kind names the branch taken
        Fault(kind, reads) ==
            /\ page_faults' = page_faults + 1
            /\ fault_returns' = [fault_returns EXCEPT ![kind] = @ \cup {None}]
            /\ walker_ret' = call @@ [result |-> "fault", fault |-> kind, pa |-> None,
                                      reads |-> reads]
        Return(pa, reads) ==
            /\ UNCHANGED <<page_faults, fault_returns>>
            /\ walker_ret' = call @@ [result |-> "ok", fault |-> "none", pa |-> pa,
                                      reads |-> reads]
        Raise(reads) ==
            /\ UNCHANGED <<page_faults, fault_returns>>
            /\ walker_ret' = call @@ [result |-> "KeyError", fault |-> "none",
                                      pa |-> None, reads |-> reads]
    IN  /\ walker
        /\ page_walks < MaxWalks
        /\ page_walks' = page_walks + 1
        /\ UNCHANGED <<walker, satp, mapped, map_calls>>
        /\ memory' = LET index == DecomposeVa(va).vpn2
                          pte   == ReadPte(memory, satp, index)
                      IN  IF pte.valid
                          THEN WritePte(memory, satp, index, [pte EXCEPT !.accessed = TRUE])
                          ELSE memory
        /\ UNCHANGED <<cacheVars, tlbVars, webVars>>
        /\ \E d \in {DecomposeVa(va)} :
           \E pte_l2 \in {ReadPte(memory, satp, d.vpn2)} :
           \E read2 \in {<< <<satp, d.vpn2>> >>} :
             IF ~pte_l2.valid THEN Fault(NOT_PRESENT, read2)
             ELSE IF pte_l2.is_leaf
             THEN Return(SuperpagePa(pte_l2.ppn, va, 30), read2)
             ELSE
           \E l1_pa \in {pte_l2.ppn * 4096} :
           \E read1 \in {read2 \o << <<l1_pa, d.vpn1>> >>} :
             IF l1_pa \notin DOMAIN memory THEN Raise(read1)
             ELSE
           \E pte_l1 \in {ReadPte(memory, l1_pa, d.vpn1)} :
             IF ~pte_l1.valid THEN Fault(NOT_PRESENT, read1)
             ELSE IF pte_l1.is_leaf
             THEN Return(SuperpagePa(pte_l1.ppn, va, 21), read1)
             ELSE
           \E l0_pa \in {pte_l1.ppn * 4096} :
           \E read0 \in {read1 \o << <<l0_pa, d.vpn0>> >>} :
             IF l0_pa \notin DOMAIN memory THEN Raise(read0)
             ELSE
           \E pte_l0 \in {ReadPte(memory, l0_pa, d.vpn0)} :
             IF ~pte_l0.valid THEN Fault(NOT_PRESENT, read0)
             ELSE IF is_write /\ ~pte_l0.writable THEN Fault(PERMISSION_VIOLATION, read0)
             ELSE Return(pte_l0.ppn * 4096 + d.offset, read0)

\* RISCV_Sv39_PageWalker.translate; pa = None is the fault return, reads lists
\* the (table, index) pairs handed to _read_pte
WalkerTranslate(va, is_write) ==
    LET call == [op |-> "translate", va |-> va, is_write |-> is_write]
        \* every fault is the same `return None`; kind names the branch taken
        Fault(kind, reads) ==
            /\ page_faults' = page_faults + 1
            /\ fault_returns' = [fault_returns EXCEPT ![kind] = @ \cup {None}]
            /\ walker_ret' = call @@ [result |-> "fault", fault |-> kind, pa |-> None,
                                      reads |-> reads]
        Return(pa, reads) ==
            /\ UNCHANGED <<page_faults, fault_returns>>
            /\ walker_ret' = call @@ [result |-> "ok", fault |-> "none", pa |-> pa,
                                      reads |-> reads]
        Raise(reads) ==
            /\ UNCHANGED <<page_faults, fault_returns>>
            /\ walker_ret' = call @@ [result |-> "KeyError", fault |-> "none",
                                      pa |-> None, reads |-> reads]
    IN  /\ walker
        /\ page_walks < MaxWalks
        /\ page_walks' = page_walks + 1
        /\ UNCHANGED <<walker, memory, satp, mapped, map_calls>>
        /\ UNCHANGED <<cacheVars, tlbVars, webVars>>
        /\ \E d \in {DecomposeVa(va)} :
           \E pte_l2 \in {ReadPte(memory, satp, d.vpn2)} :
           \E read2 \in {<< <<satp, d.vpn2>> >>} :
             IF ~pte_l2.valid THEN Fault(NOT_PRESENT, read2)
             ELSE IF pte_l2.is_leaf
             THEN Return(SuperpagePa(pte_l2.ppn, va, 30), read2)
             ELSE
           \E l1_pa \in {pte_l2.ppn * 4096} :
           \E read1 \in {read2 \o << <<l1_pa, d.vpn1>> >>} :
             IF l1_pa \notin DOMAIN memory THEN Raise(read1)
             ELSE
           \E pte_l1 \in {ReadPte(memory, l1_pa, d.vpn1)} :
             IF ~pte_l1.valid THEN Fault(NOT_PRESENT, read1)
             ELSE IF pte_l1.is_leaf
             THEN Return(SuperpagePa(pte_l1.ppn, va, 21), read1)
             ELSE
           \E l0_pa \in {pte_l1.ppn * 4096} :
           \E read0 \in {read1 \o << <<l0_pa, d.vpn0>> >>} :
             IF l0_pa \notin DOMAIN memory THEN Raise(read0)
             ELSE
           \E pte_l0 \in {ReadPte(memory, l0_pa, d.vpn0)} :
             IF ~pte_l0.valid THEN Fault(NOT_PRESENT, read0)
             ELSE IF is_write /\ ~pte_l0.writable THEN Fault(PERMISSION_VIOLATION, read0)
             ELSE Return(pte_l0.ppn * 4096 + d.offset, read0)

MapPageAny ==
    \E m \in WalkerMappings, writable \in BOOLEAN :
        MapPage(m[1], m[2], TRUE, writable, FALSE, TRUE)

WalkerTranslateAny ==
    \E va \in WalkerVirtualAddresses, is_write \in BOOLEAN :
        WalkerTranslate(va, is_write)

WalkerNext == MapPageAny \/ WalkerTranslateAny

WalkerSpec == WalkerInit /\ [][WalkerNext]_vars

\* map_page with the page given read and write permission, or none at all
MapPagePermsAny ==
    \E m \in WalkerMappings, perm \in BOOLEAN :
        MapPage(m[1], m[2], perm, perm, FALSE, TRUE)

PermsNext == MapPagePermsAny \/ WalkerTranslateAny

\* the walker with pages mapped with and without permissions
PermsSpec == WalkerInit /\ [][PermsNext]_vars

\* the PageTableEntry values handed to _write_pte: every flag alone, every flag
\* missing, none and all, over two page numbers, with is_leaf set or not
PteFlagPatterns ==
    { [k \in 1..8 |-> k = j] : j \in 0..8 } \cup { [k \in 1..8 |-> k # j] : j \in 0..8 }

PtePpns == {74565, 2097151}                      \* 0x12345, 0x1FFFFF

PteInputs ==
    { PageTableEntry(f[1], ppn, f[2], f[3], f[4], f[5], f[6], f[7], f[8], leaf) :
        f \in PteFlagPatterns, ppn \in PtePpns, leaf \in BOOLEAN }

\* the table indices _write_pte and _read_pte are called with
PteIndices == {0, 511}

\* a call self._write_pte(self.satp, index, pte)
WritePteCall(index, pte) ==
    /\ walker
    /\ memory' = WritePte(memory, satp, index, pte)
    /\ walker_ret' = [op |-> "write_pte", table_pa |-> satp, index |-> index,
                      pte |-> pte]
    /\ UNCHANGED <<walker, satp, page_walks, page_faults, mapped, map_calls,
                   fault_returns>>
    /\ UNCHANGED <<cacheVars, tlbVars, webVars>>

\* a call self._read_pte(self.satp, index)
ReadPteCall(index) ==
    /\ walker
    /\ walker_ret' = [op |-> "read_pte", table_pa |-> satp, index |-> index,
                      pte |-> ReadPte(memory, satp, index)]
    /\ UNCHANGED <<walker, memory, satp, page_walks, page_faults, mapped, map_calls,
                   fault_returns>>
    /\ UNCHANGED <<cacheVars, tlbVars, webVars>>

WritePteAny == \E index \in PteIndices, pte \in PteInputs : WritePteCall(index, pte)

ReadPteAny == \E index \in PteIndices : ReadPteCall(index)

PteNext == WritePteAny \/ ReadPteAny

\* the walker after construction, its root table at 0x10000
PteInit == WalkerInit /\ satp = 65536

PteSpec == PteInit /\ [][PteNext]_vars

----------------------------------------------------------------------------
(* VIPT visualizer (vipt_visualizer.py) and the web application (app.py)   *)

\* (cache_size, block_size, associativity, page_size) of a visualizer
ViptConfiguration(c, b, a, p) ==
    [cache_size |-> c, block_size |-> b, associativity |-> a, page_size |-> p]

ViptConfigurations ==
    { ViptConfiguration(32768, 64, 4, 4096),       \* demo_vipt_safe, the defaults
      ViptConfiguration(262144, 64, 1, 4096),      \* demo_vipt_unsafe
      ViptConfiguration(262144, 64, 1, 2097152),   \* demo_huge_pages
      ViptConfiguration(32768, 64, 8, 4096),       \* 64 sets
      ViptConfiguration(4096, 64, 1, 4096) }       \* one page, direct mapped

\* virtual and physical addresses handed to visualize_vipt
ViptVirtualAddresses  == {564, 4660, 4198964, 8820}         \* 0x234, 0x1234, 0x401234, 0x2274
ViptPhysicalAddresses == {564, 4660, 305418804, 628}        \* 0x234, 0x1234, 0x12345234, 0x274

\* VIPTVisualizer.__init__
VisualizerInit(cfg) ==
    /\ \E sets \in {cfg.cache_size \div (cfg.block_size * cfg.associativity)} :
          visualizer' =
              [built |-> TRUE,
               cache_size |-> cfg.cache_size, block_size |-> cfg.block_size,
               associativity |-> cfg.associativity, page_size |-> cfg.page_size,
               address_bits |-> 32,
               num_sets |-> sets,
               offset_bits |-> Log2(cfg.block_size),
               index_bits |-> Log2(sets),
               page_offset_bits |-> Log2(cfg.page_size),
               is_vipt_safe |-> Log2(sets) <= Log2(cfg.page_size)]
    /\ UNCHANGED <<vipt_ret, request, response>>
    /\ UNCHANGED <<cacheVars, tlbVars, walkerVars>>

\* VIPTVisualizer._decompose_address
ViptDecomposeAddress(v, address) ==
    [offset |-> address % Pow2(v.offset_bits),
     index  |-> (address \div Pow2(v.offset_bits)) % Pow2(v.index_bits),
     tag    |-> address \div Pow2(v.offset_bits + v.index_bits)]

\* _get_vpn_and_offset and _get_ppn_and_offset: <<page number, page offset>>
GetVpnAndOffset(v, va) == <<va \div Pow2(v.page_offset_bits), va % Pow2(v.page_offset_bits)>>
GetPpnAndOffset(v, pa) == <<pa \div Pow2(v.page_offset_bits), pa % Pow2(v.page_offset_bits)>>

\* visualize_vipt: what it prints for the lookup of va, translated to pa
VisualizeVipt(va, pa) ==
    /\ visualizer.built
    /\ vipt_ret' =
          [op |-> "visualize_vipt", va |-> va, pa |-> pa,
           vpn |-> GetVpnAndOffset(visualizer, va)[1],
           va_offset |-> GetVpnAndOffset(visualizer, va)[2],
           ppn |-> GetPpnAndOffset(visualizer, pa)[1],
           pa_offset |-> GetPpnAndOffset(visualizer, pa)[2],
           set |-> ViptDecomposeAddress(visualizer, va).index,
           tag |-> ViptDecomposeAddress(visualizer, pa).tag,
           index_start_bit |-> visualizer.offset_bits,
           index_end_bit |-> visualizer.offset_bits + visualizer.index_bits - 1,
           page_offset_bits |-> visualizer.page_offset_bits,
           safe |-> visualizer.is_vipt_safe]
    /\ UNCHANGED <<visualizer, request, response>>
    /\ UNCHANGED <<cacheVars, tlbVars, walkerVars>>

\* data.get(key, default) on the JSON object of a request
Get(data, key, default) == IF key \in DOMAIN data THEN data[key] ELSE default

\* the loop `while temp > 1: bits += 1; temp >>= 1` of vipt_analyze
RECURSIVE ShiftCount(_)
ShiftCount(temp) == IF temp > 1 THEN 1 + ShiftCount(temp \div 2) ELSE 0

\* the JSON object without keys
EmptyData == [k \in {} |-> 0]

\* /api/vipt/analyze
ViptAnalyze(data) ==
    /\ request' = [op |-> "vipt_analyze", data |-> data]
    /\ \E cfg \in {ViptConfiguration(Get(data, "cache_size", 32768),
                                     Get(data, "block_size", 64),
                                     Get(data, "associativity", 4),
                                     Get(data, "page_size", 4096))} :
       \E sets \in {cfg.cache_size \div (cfg.block_size * cfg.associativity)} :
          response' =
              [op |-> "vipt_analyze", status |-> 200, success |-> TRUE,
               cache_size |-> cfg.cache_size, associativity |-> cfg.associativity,
               block_size |-> cfg.block_size, page_size |-> cfg.page_size,
               num_sets |-> sets,
               index_bits |-> ShiftCount(sets),
               page_offset_bits |-> ShiftCount(cfg.page_size),
               is_safe |-> ShiftCount(sets) <= ShiftCount(cfg.page_size),
               message |-> IF ShiftCount(sets) <= ShiftCount(cfg.page_size)
                           THEN "SAFE" ELSE "UNSAFE (synonym possible)"]
    /\ UNCHANGED <<visualizer, vipt_ret>>
    /\ UNCHANGED <<cacheVars, tlbVars, walkerVars>>

\* the value of one hexadecimal digit
HexDigit ==
    [c \in {"0", "1", "2", "3", "4", "5", "6", "7", "8", "9",
            "a", "b", "c", "d", "e", "f"} |->
        CASE c = "0" -> 0  [] c = "1" -> 1  [] c = "2" -> 2  [] c = "3" -> 3
          [] c = "4" -> 4  [] c = "5" -> 5  [] c = "6" -> 6  [] c = "7" -> 7
          [] c = "8" -> 8  [] c = "9" -> 9  [] c = "a" -> 10 [] c = "b" -> 11
          [] c = "c" -> 12 [] c = "d" -> 13 [] c = "e" -> 14 [] c = "f" -> 15]

\* what a call gives back: the exception it raised ("none": it returned) and
\* the value it returned
Returned(value) == [raised |-> "none", value |-> value]
Raised(e)       == [raised |-> e, value |-> None]

\* int(text, 16), text given as its characters after the 0x prefix;
\* ValueError when a character is no hexadecimal digit
RECURSIVE Int16From(_, _)
Int16From(chars, value) ==
    IF chars = <<>> THEN Returned(value)
    ELSE IF Head(chars) \notin DOMAIN HexDigit THEN Raised("ValueError")
    ELSE Int16From(Tail(chars), 16 * value + HexDigit[Head(chars)])

Int16(chars) == IF chars = <<>> THEN Raised("ValueError") ELSE Int16From(chars, 0)

\* a | b
BitOr(a, b) == a + b - BitAnd(a, b)

\* map_page(va, pa) with its default permissions on the memory mem of a walker
\* with root table root: the memory it leaves, unless it raises KeyError
MapPageMemory(mem, root, va, pa, l1_new, l0_new) ==
    LET d      == DecomposeVa(va)
        pte_l2 == ReadPte(mem, root, d.vpn2)
        mem1   == IF ~pte_l2.valid
                  THEN WritePte(AllocatePageTable(mem, l1_new), root, d.vpn2,
                                PointerPte(l1_new))
                  ELSE mem
        l1_pa  == IF ~pte_l2.valid THEN PointerPte(l1_new).ppn * 4096
                  ELSE pte_l2.ppn * 4096
    IN  IF l1_pa \notin DOMAIN mem1 THEN Raised("KeyError")
        ELSE
    LET pte_l1 == ReadPte(mem1, l1_pa, d.vpn1)
        mem2   == IF ~pte_l1.valid
                  THEN WritePte(AllocatePageTable(mem1, l0_new), l1_pa, d.vpn1,
                                PointerPte(l0_new))
                  ELSE mem1
        l0_pa  == IF ~pte_l1.valid THEN PointerPte(l0_new).ppn * 4096
                  ELSE pte_l1.ppn * 4096
    IN  IF l0_pa \notin DOMAIN mem2 THEN Raised("KeyError")
        ELSE Returned(WritePte(mem2, l0_pa, d.vpn0,
                               PageTableEntry(TRUE, pa \div 4096, TRUE, TRUE, FALSE, TRUE,
                                              FALSE, FALSE, FALSE, TRUE)))

\* translate(va) for a read on memory mem with root table root: the address
\* it returns (None on a fault), unless it raises KeyError
TranslateMemory(mem, root, va) ==
    LET d      == DecomposeVa(va)
        pte_l2 == ReadPte(mem, root, d.vpn2)
    IN  IF ~pte_l2.valid THEN Returned(None)
        ELSE IF pte_l2.is_leaf THEN Returned(SuperpagePa(pte_l2.ppn, va, 30))
        ELSE IF pte_l2.ppn * 4096 \notin DOMAIN mem THEN Raised("KeyError")
        ELSE
    LET pte_l1 == ReadPte(mem, pte_l2.ppn * 4096, d.vpn1)
    IN  IF ~pte_l1.valid THEN Returned(None)
        ELSE IF pte_l1.is_leaf THEN Returned(SuperpagePa(pte_l1.ppn, va, 21))
        ELSE IF pte_l1.ppn * 4096 \notin DOMAIN mem THEN Raised("KeyError")
        ELSE
    LET pte_l0 == ReadPte(mem, pte_l1.ppn * 4096, d.vpn0)
    IN  IF ~pte_l0.valid THEN Returned(None)
        ELSE Returned(pte_l0.ppn * 4096 + d.offset)

\* the parameters RISCV_Sv39_PageWalker.__init__ takes besides self
WalkerInitParameters == {}

\* the keyword arguments pagewalk_translate constructs the walker with
PagewalkKeywords == {"satp_base"}

\* the answer of an except branch: jsonify(success=False, error=str(e)), 400
ErrorResponse(op, e) == [op |-> op, status |-> 400, success |-> FALSE, error |-> e]

\* /api/pagewalk/translate; root, l1_new and l0_new are the addresses
\* _allocate_page_table returns when it is called
PagewalkTranslateWith(data, root, l1_new, l0_new) ==
    /\ request' = [op |-> "pagewalk_translate", data |-> data]
    /\ \E parsed \in {Int16(Get(data, "va", <<"4", "0", "1", "2", "3", "4">>))} :
       IF parsed.raised # "none"
       THEN response' = ErrorResponse("pagewalk_translate", parsed.raised)
       ELSE IF ~(PagewalkKeywords \subseteq WalkerInitParameters)
       THEN response' = ErrorResponse("pagewalk_translate", "TypeError")
       ELSE
       \E va \in {parsed.value} :
       \E va_page \in {va - (va % 4096)} :
       \E pa_page \in {BitOr(va_page, 268435456) - (BitOr(va_page, 268435456) % 4096)} :
       \E map \in {MapPageMemory(AllocatePageTable(<<>>, root), root, va_page, pa_page,
                                 l1_new, l0_new)} :
       IF map.raised # "none"
       THEN response' = ErrorResponse("pagewalk_translate", map.raised)
       ELSE
       \E walk \in {TranslateMemory(map.value, root, va)} :
       IF walk.raised # "none"
       THEN response' = ErrorResponse("pagewalk_translate", walk.raised)
       ELSE response' =
              [op |-> "pagewalk_translate", status |-> 200, success |-> TRUE,
               va |-> va,
               pa |-> IF walk.value = None \/ walk.value = 0 THEN None ELSE walk.value,
               decomposition |-> DecomposeVa(va),
               stats |-> [page_walks |-> 1,
                          page_faults |-> IF walk.value = None THEN 1 ELSE 0]]
    /\ UNCHANGED <<visualizer, vipt_ret>>
    /\ UNCHANGED <<cacheVars, tlbVars, walkerVars>>

PagewalkTranslate(data) ==
    \E root \in TableAddresses, l1_new \in TableAddresses, l0_new \in TableAddresses :
        PagewalkTranslateWith(data, root, l1_new, l0_new)

\* the JSON objects posted to /api/vipt/analyze
ViptRequests == ViptConfigurations \cup {EmptyData, [page_size |-> 2097152]}

\* the JSON objects posted to /api/pagewalk/translate: 0x401234, 0x234,
\* 0x7ffff000, no va, and a text that is no hexadecimal number
PagewalkRequests ==
    { [va |-> <<"4", "0", "1", "2", "3", "4">>],
      [va |-> <<"2", "3", "4">>],
      [va |-> <<"7", "f", "f", "f", "f", "0", "0", "0">>],
      EmptyData,
      [va |-> <<"4", "0", "g">>] }

VisualizerInitAny == \E cfg \in ViptConfigurations : VisualizerInit(cfg)

VisualizeViptAny ==
    \E va \in ViptVirtualAddresses, pa \in ViptPhysicalAddresses : VisualizeVipt(va, pa)

ViptAnalyzeAny == \E data \in ViptRequests : ViptAnalyze(data)

PagewalkTranslateAny == \E data \in PagewalkRequests : PagewalkTranslate(data)

WebInit ==
    /\ args = Geometry(4096, 64, 4, 32)
    /\ CacheInit
    /\ NoTLB
    /\ NoWalker
    /\ NoWeb

WebNext ==
    VisualizerInitAny \/ VisualizeViptAny \/ ViptAnalyzeAny \/ PagewalkTranslateAny

WebSpec == WebInit /\ [][WebNext]_vars

----------------------------------------------------------------------------
(* Vocabulary of the properties, stated on addresses and lines rather than  *)
(* through the cache's own lookup operators                                 *)

Ways == 0..(associativity - 1)
Sets == 0..(num_sets - 1)

BlockOf(a) == a \div block_size
SetOf(a)   == BlockOf(a) % num_sets
TagOf(a)   == BlockOf(a) \div num_sets

ValidWays(c, s) == {w \in Ways : c[s][w].valid}

\* the (access_type, address) pairs of a trace, without the outcomes
Calls(tr) == [i \in 1..Len(tr) |-> <<tr[i][1], tr[i][2]>>]
Results(tr) == [i \in 1..Len(tr) |-> tr[i][3]]

\* the step is an access that returned
AccessStep == trace' # trace

\* the way an access step wrote (every returning access stamps one line)
TouchedWay(s) == CHOOSE w \in Ways : cache'[s][w] # cache[s][w]

Min2(a, b) == IF a < b THEN a ELSE b

----------------------------------------------------------------------------
(* C1: LRU correctness. The number of valid lines of a set is the number of *)
(* distinct blocks of that set accessed so far, up to the associativity k   *)
(* (k distinct blocks fill the k ways); a miss on a set with a free way      *)
(* evicts nothing; a miss on a full set evicts exactly the line with the    *)
(* minimum lru_counter of the set and no other line of the set changes tag  *)
(* or validity.                                                             *)
C1Fill ==
    constructed /\ tag_bits >= 0 =>
        \A s \in Sets :
            Cardinality(ValidWays(cache, s)) =
                Min2(associativity,
                     Cardinality({BlockOf(trace[i][2]) :
                                    i \in {j \in 1..Len(trace) : SetOf(trace[j][2]) = s}}))

C1Step ==
    AccessStep /\ ret'.result = "miss" =>
        LET s       == SetOf(ret'.address)
            changed == {w \in Ways : \/ cache'[s][w].valid # cache[s][w].valid
                                     \/ cache'[s][w].tag # cache[s][w].tag}
        IN  IF ValidWays(cache, s) # Ways
            THEN /\ evictions' = evictions
                 /\ \A w \in ValidWays(cache, s) : w \notin changed
                 /\ Cardinality(ValidWays(cache', s)) = Cardinality(ValidWays(cache, s)) + 1
            ELSE /\ evictions' = evictions + 1
                 /\ \E v \in Ways :
                        /\ \A w \in Ways : cache[s][v].lru_counter <= cache[s][w].lru_counter
                        /\ changed = {v}
                        /\ cache'[s][v].valid
                        /\ cache'[s][v].tag = TagOf(ret'.address)

C1LruCorrect == [](C1Fill) /\ [][C1Step]_vars

\* two ways filled, the older line touched again, then a third block evicts the other
C1Witness ==
    /\ associativity = 2
    /\ Len(trace) = 4
    /\ Results(trace) = <<"miss", "miss", "hit", "miss">>
    /\ BlockOf(trace[3][2]) = BlockOf(trace[1][2])
    /\ evictions = 1
    /\ cache[SetOf(trace[1][2])][0].tag = TagOf(trace[1][2])

(* C2: dirty-bit counting. Every miss that evicts a valid dirty line adds   *)
(* exactly 1 to dirty_evictions, whatever the verbose argument, and every   *)
(* other miss leaves dirty_evictions unchanged.                             *)
C2DirtyEvictionCounted ==
    [][AccessStep /\ ret'.result = "miss" =>
          LET s == SetOf(ret'.address)
              v == TouchedWay(s)
          IN  dirty_evictions' =
                  IF cache[s][v].valid /\ cache[s][v].dirty
                  THEN dirty_evictions + 1 ELSE dirty_evictions]_vars

(* C3: repeated hit. The first access to a block is a miss; an access to a  *)
(* block whose last access was followed by no access to the same set is a   *)
(* hit; a hit leaves evictions and every line's validity and tag unchanged. *)
C3Trace ==
    \A j \in 1..Len(trace) :
        LET prior == {i \in 1..(j - 1) : BlockOf(trace[i][2]) = BlockOf(trace[j][2])}
        IN  IF prior = {}
            THEN trace[j][3] = "miss"
            ELSE LET i == CHOOSE x \in prior : \A y \in prior : y <= x
                 IN  (\A m \in (i + 1)..(j - 1) : SetOf(trace[m][2]) # SetOf(trace[j][2]))
                        => trace[j][3] = "hit"

C3Step ==
    AccessStep /\ ret'.result = "hit" =>
        /\ evictions' = evictions
        /\ \A s \in Sets : \A w \in Ways :
              /\ cache'[s][w].valid = cache[s][w].valid
              /\ cache'[s][w].tag = cache[s][w].tag

C3RepeatedHit == [](constructed => C3Trace) /\ [][C3Step]_vars

\* a miss, then hits through two other addresses of the same block
C3Witness ==
    /\ Len(trace) >= 3
    /\ Results(SubSeq(trace, 1, 3)) = <<"miss", "hit", "hit">>
    /\ trace[2][2] # trace[1][2]
    /\ trace[3][2] # trace[2][2]
    /\ evictions = 0

(* C4: every constructed cache has num_sets * associativity * block_size =  *)
(* size and offset_bits + index_bits + tag_bits = address_bits.             *)
C4GeometryConsistent ==
    constructed =>
        /\ num_sets * associativity * block_size = size
        /\ offset_bits + index_bits + tag_bits = address_bits

(* C5: no set ever holds two valid lines with the same tag.                 *)
C5NoDuplicateTags ==
    constructed =>
        \A s \in Sets : \A w1 \in Ways : \A w2 \in Ways :
            (w1 # w2 /\ cache[s][w1].valid /\ cache[s][w2].valid)
                => cache[s][w1].tag # cache[s][w2].tag

\* a set with every way valid in which a block was found again in the last way
C5Witness ==
    /\ constructed
    /\ associativity >= 2
    /\ \E s \in Sets :
          /\ ValidWays(cache, s) = Ways
          /\ cache[s][associativity - 1].lru_counter = global_lru_counter
    /\ ret.op = "access" /\ ret.result = "hit"

(* C6: construction raises and yields no instance when a size, block size   *)
(* or associativity is not positive, the block size is not a power of two,  *)
(* the size is not a multiple of the block size, or the number of sets the  *)
(* constructor computes, (size // block_size) // associativity, is not a    *)
(* power of two.                                                            *)
IsPowerOfTwoNumber(n) == \E k \in 0..12 : n = Pow2(k)

BadGeometry(a) ==
    \/ a.size <= 0 \/ a.block_size <= 0 \/ a.associativity <= 0
    \/ ~IsPowerOfTwoNumber(a.block_size)
    \/ a.size % a.block_size # 0
    \/ ~IsPowerOfTwoNumber((a.size \div a.block_size) \div a.associativity)

C6ConstructionRejects ==
    BadGeometry(args) =>
        /\ ~constructed
        /\ ret.op # "none" => (ret.op = "__init__" /\ ret.result = "ValueError")

\* three sets: positive, block a power of two, size a multiple, sets not a power of two
C6Witness ==
    /\ args = Geometry(192, 64, 1, 32)
    /\ ret.op = "__init__"
    /\ ret.result = "ValueError"
    /\ ~constructed

(* C7: no constructed cache has tag_bits < 0, and no access on a            *)
(* constructed cache fails because of its geometry.                         *)
C7BitFieldsValidated ==
    /\ constructed => tag_bits >= 0
    /\ ~(ret.op = "access" /\ ret.result = "ValueError")

(* C8: conflict misses in the direct-mapped cache (1024, 64, 1): 0x1000 and *)
(* 0x1400 share a set and differ in tag; read A, read A, read B, read A     *)
(* gives miss, hit, miss, miss with read_misses = 3, read_hits = 1 and      *)
(* evictions = 2; and in every 1-way cache a miss on an occupied set evicts *)
(* the resident line.                                                       *)
ConflictGeometry == Geometry(1024, 64, 1, 32)
ConflictScript == << <<READ, 4096>>, <<READ, 4096>>, <<READ, 5120>>, <<READ, 4096>> >>
ConflictResults   == <<"miss", "hit", "miss", "miss">>
ConflictMisses    == <<1, 1, 2, 3>>
ConflictHits      == <<0, 1, 1, 1>>
ConflictEvictions == <<0, 0, 1, 2>>

C8Scenario ==
    (constructed /\ args = ConflictGeometry) =>
        /\ SetOf(4096) = SetOf(5120) /\ TagOf(4096) # TagOf(5120)
        /\ DecomposeAddress(4096).index = DecomposeAddress(5120).index
        /\ DecomposeAddress(4096).tag # DecomposeAddress(5120).tag
        /\ \A n \in 1..4 :
              (Len(trace) = n /\ Calls(trace) = SubSeq(ConflictScript, 1, n)) =>
                  /\ Results(trace) = SubSeq(ConflictResults, 1, n)
                  /\ read_misses = ConflictMisses[n]
                  /\ read_hits = ConflictHits[n]
                  /\ evictions = ConflictEvictions[n]
                  /\ write_hits = 0 /\ write_misses = 0

C8Step ==
    (AccessStep /\ associativity = 1 /\ ret'.result = "miss"
        /\ cache[SetOf(ret'.address)][0].valid) =>
            /\ evictions' = evictions + 1
            /\ cache'[SetOf(ret'.address)][0].valid
            /\ cache'[SetOf(ret'.address)][0].tag = TagOf(ret'.address)
            /\ cache'[SetOf(ret'.address)][0].tag # cache[SetOf(ret'.address)][0].tag

C8ConflictMisses == [](C8Scenario) /\ [][C8Step]_vars

C8Witness ==
    /\ constructed /\ args = ConflictGeometry
    /\ Len(trace) = 4
    /\ Calls(trace) = ConflictScript
    /\ evictions = 2 /\ read_misses = 3 /\ read_hits = 1

(* C9: on the cache (4096, 64, 4), read 0x00401000, read 0x00401004, write  *)
(* 0x00401008, read 0x00402000 gives miss, hit, hit, miss; after the write  *)
(* the line of 0x00401000's block is dirty; nothing is evicted; and two     *)
(* addresses that differ only in their offset bits get the same tag and     *)
(* index.                                                                   *)
BasicGeometry == Geometry(4096, 64, 4, 32)
BasicScript == << <<READ, 4198400>>, <<READ, 4198404>>, <<WRITE, 4198408>>, <<READ, 4202496>> >>
BasicResults == <<"miss", "hit", "hit", "miss">>

C9SameBlockHits ==
    /\ (constructed /\ args = BasicGeometry) =>
          \A n \in 1..4 :
              (Len(trace) = n /\ Calls(trace) = SubSeq(BasicScript, 1, n)) =>
                  /\ Results(trace) = SubSeq(BasicResults, 1, n)
                  /\ evictions = 0 /\ dirty_evictions = 0
                  /\ \E w \in Ways :
                        /\ cache[SetOf(4198400)][w].valid
                        /\ cache[SetOf(4198400)][w].tag = TagOf(4198400)
                        /\ cache[SetOf(4198400)][w].dirty = (n >= 3)
    /\ (constructed /\ tag_bits >= 0) =>
          \A a \in Addresses : \A b \in Addresses :
              BlockOf(a) = BlockOf(b) =>
                  /\ DecomposeAddress(a).tag = DecomposeAddress(b).tag
                  /\ DecomposeAddress(a).index = DecomposeAddress(b).index

C9Witness ==
    /\ constructed /\ args = BasicGeometry
    /\ Len(trace) = 4
    /\ Calls(trace) = BasicScript
    /\ Results(trace) = BasicResults
    /\ write_hits = 1

(* C10: no two valid TLB entries hold the same (vpn, page_size) pair.       *)
C10NoDuplicateEntries ==
    \A i \in 0..(num_entries - 1) : \A j \in 0..(num_entries - 1) :
        (i # j /\ entries[i].valid /\ entries[j].valid)
            => ~(entries[i].vpn = entries[j].vpn
                 /\ entries[i].page_size = entries[j].page_size)

\* two valid entries, one of them hit again after both were installed
C10Witness ==
    /\ num_entries >= 2
    /\ entries[0].valid /\ entries[1].valid
    /\ entries[0].vpn = entries[1].vpn
    /\ entries[0].page_size # entries[1].page_size
    /\ hits >= 1
    /\ entries[0].lru_counter = tlb_global_lru_counter

----------------------------------------------------------------------------
(* Vocabulary of the TLB properties *)

PageOf(va, page_size) == <<va \div Pow2(PageOffsetBits(page_size)), page_size>>

\* indices of the valid entries that cache the page of va
CachedAt(es, va, page_size) ==
    {i \in DOMAIN es : /\ es[i].valid
                       /\ <<es[i].vpn, es[i].page_size>> = PageOf(va, page_size)}

\* a step in which translate ran
TranslateStep ==
    /\ tlb_ret'.op = "translate"
    /\ hits' + misses' = hits + misses + 1

\* translate of a page that no valid entry caches is a miss
MissWhenUncached ==
    (TranslateStep /\ CachedAt(entries, tlb_ret'.va, tlb_ret'.page_size) = {})
        => /\ tlb_ret'.outcome = "miss"
           /\ misses' = misses + 1
           /\ hits' = hits

\* C12: after install_mapping(va, pa, page_size, writable=False) every write
\* translate of the page faults and every read translate returns an address
C12PermissionsFromMapping ==
    (/\ tlb_ret.op = "translate"
     /\ PageOf(tlb_ret.va, tlb_ret.page_size) \in DOMAIN installed
     /\ ~installed[PageOf(tlb_ret.va, tlb_ret.page_size)].writable)
        => IF tlb_ret.is_write THEN tlb_ret.pa = None ELSE tlb_ret.pa # None

\* C13: translate of a page with no valid entry and no mapping faults,
\* increments misses and changes nothing else
C13Step ==
    (/\ TranslateStep
     /\ CachedAt(entries, tlb_ret'.va, tlb_ret'.page_size) = {}
     /\ PageOf(tlb_ret'.va, tlb_ret'.page_size) \notin DOMAIN page_table)
        => /\ tlb_ret'.pa = None
           /\ entries' = entries
           /\ tlb_global_lru_counter' = tlb_global_lru_counter
           /\ misses' = misses + 1
           /\ hits' = hits
           /\ page_table' = page_table
           /\ num_entries' = num_entries

C13UnmappedMissFaults == [][C13Step]_vars

\* a fault on a miss, taken while another page is cached
C13Witness ==
    /\ tlb_ret.op = "translate"
    /\ tlb_ret.outcome = "miss"
    /\ tlb_ret.pa = None
    /\ \E i \in DOMAIN entries : entries[i].valid

\* the entry the replacement has to take: the lowest-indexed invalid entry,
\* else the lowest-indexed entry among those with the minimum lru_counter
ExpectedVictim(es) ==
    LET invalid == {i \in DOMAIN es : ~es[i].valid}
        oldest  == {i \in DOMAIN es :
                       \A j \in DOMAIN es : es[i].lru_counter <= es[j].lru_counter}
        lowest(S) == CHOOSE i \in S : \A j \in S : i <= j
    IN  IF invalid # {} THEN lowest(invalid) ELSE lowest(oldest)

\* C14: a miss that finds a mapping writes the new entry into the expected
\* victim and changes no other entry
C14Step ==
    (/\ TranslateStep
     /\ tlb_ret'.outcome = "miss"
     /\ tlb_ret'.pa # None)
        => LET v == ExpectedVictim(entries) IN
           /\ entries'[v].valid
           /\ <<entries'[v].vpn, entries'[v].page_size>>
                  = PageOf(tlb_ret'.va, tlb_ret'.page_size)
           /\ entries'[v] # entries[v]
           /\ \A j \in DOMAIN entries : j # v => entries'[j] = entries[j]

C15Step ==
    /\ (tlb_ret'.op = "flush") =>
           /\ \A i \in DOMAIN entries :
                  IF entries[i].global_page
                  THEN entries'[i] = entries[i]
                  ELSE entries'[i] = [entries[i] EXCEPT !.valid = FALSE]
           /\ DOMAIN entries' = DOMAIN entries
           /\ hits' = hits /\ misses' = misses
           /\ page_table' = page_table
    /\ (tlb_ret.op = "flush" /\ TranslateStep) =>
           /\ tlb_ret'.outcome = "miss"
           /\ misses' = misses + 1
           /\ (tlb_ret'.pa = None) <=>
                  (PageOf(tlb_ret'.va, tlb_ret'.page_size) \notin DOMAIN page_table)
    /\ MissWhenUncached

C15FlushInvalidates ==
    /\ [](tlb_ret.op = "flush" =>
              \A i \in DOMAIN entries : ~entries[i].global_page => ~entries[i].valid)
    /\ [][C15Step]_vars

\* flush has just cleared at least one cached page
C15Witness ==
    /\ tlb_ret.op = "flush"
    /\ tlb_ret.invalidated > 0
    /\ hits + misses > 0

\* C16: invalidate clears exactly the matching valid entry and returns True,
\* or returns False and changes nothing; the page is then uncached, so that
\* its next translate is a miss
C16Call(va, page_size) ==
    LET match == CachedAt(entries, va, page_size) IN
    /\ IF match # {}
       THEN /\ tlb_ret'.found = TRUE
            /\ \E i \in match :
                   /\ Cardinality(match) = 1
                   /\ entries' = [entries EXCEPT ![i].valid = FALSE]
       ELSE /\ tlb_ret'.found = FALSE
            /\ entries' = entries
    /\ CachedAt(entries', va, page_size) = {}
    /\ hits' = hits /\ misses' = misses
    /\ tlb_global_lru_counter' = tlb_global_lru_counter
    /\ page_table' = page_table
    /\ num_entries' = num_entries

C16Step ==
    /\ \A va \in TLBVirtualAddresses, page_size \in TLBPageSizes :
           Invalidate(va, page_size) => C16Call(va, page_size)
    /\ MissWhenUncached

C16InvalidateOne == [][C16Step]_vars

\* invalidate found its entry while another entry stayed valid
C16Witness ==
    /\ tlb_ret.op = "invalidate"
    /\ tlb_ret.found
    /\ \E i \in DOMAIN entries : entries[i].valid
    /\ \E i \in DOMAIN entries : ~entries[i].valid /\ entries[i].lru_counter > 0

\* C17: translate of an address in a page installed with install_mapping(va,
\* pa, page_size) returns the page-aligned pa plus the offset of the address
\* in the page, on a miss and on a hit, for every page size
C17TranslationResult ==
    (/\ tlb_ret.op = "translate"
     /\ PageOf(tlb_ret.va, tlb_ret.page_size) \in DOMAIN installed
     /\ installed[PageOf(tlb_ret.va, tlb_ret.page_size)].writable)
        => LET bits == PageOffsetBits(tlb_ret.page_size)
               pa   == installed[PageOf(tlb_ret.va, tlb_ret.page_size)].pa
           IN  tlb_ret.pa = (pa \div Pow2(bits)) * Pow2(bits) + (tlb_ret.va % Pow2(bits))

\* a hit on a 1GB page through an address other than the one that missed
C17Witness ==
    /\ tlb_ret.op = "translate"
    /\ tlb_ret.outcome = "hit"
    /\ tlb_ret.page_size = GB_1
    /\ tlb_ret.va = 6844
    /\ tlb_ret.pa = 1073741824 + 6844
    /\ hits = 1 /\ misses = 1

----------------------------------------------------------------------------
(* Vocabulary of the page walker properties *)

\* a step in which the walker's translate ran
WalkStep ==
    /\ walker_ret'.op = "translate"
    /\ page_walks' = page_walks + 1

\* the address a 4KB mapping to pa gives for va
MappedPa(pa, va) == (pa \div 4096) * 4096 + (va % 4096)

\* the integer held by the 8 little-endian bytes of a PTE slot
SlotValue(mem, table_pa, index) ==
    LET b == IF index \in DOMAIN mem[table_pa] THEN mem[table_pa][index]
             ELSE <<0, 0, 0, 0, 0, 0, 0, 0>>
    IN  b[1] + 256 * (b[2] + 256 * (b[3] + 256 * (b[4] + 256 * (b[5]
             + 256 * (b[6] + 256 * (b[7] + 256 * b[8]))))))

SlotValid(v) == v % 2 = 1
SlotLeaf(v)  == (v \div 2) % 8 # 0
SlotPpn(v)   == v \div 1024

\* C18: translate of a page that was never mapped faults; translate of a page
\* mapped by map_page(va_page, pa_page) returns pa_page's frame with the low
\* 12 bits of the address, whatever addresses the table allocator returned
C18MappedPageTranslates ==
    (walker_ret.op = "translate") =>
        LET page == walker_ret.va \div 4096 IN
        IF page \notin DOMAIN mapped
        THEN walker_ret.pa = None
        ELSE (~walker_ret.is_write \/ mapped[page].writable)
                 => walker_ret.pa = MappedPa(mapped[page].pa, walker_ret.va)

\* C19: on a page mapped with writable=False a write faults and adds 1 to
\* page_faults while a read returns the mapped address; on a page mapped
\* with writable=True both succeed
C19Step ==
    (WalkStep /\ (walker_ret'.va \div 4096) \in DOMAIN mapped) =>
        LET m    == mapped[walker_ret'.va \div 4096]
            good == /\ walker_ret'.pa = MappedPa(m.pa, walker_ret'.va)
                    /\ page_faults' = page_faults
        IN  IF walker_ret'.is_write /\ ~m.writable
            THEN walker_ret'.pa = None /\ page_faults' = page_faults + 1
            ELSE good

C19WriteProtection == [][C19Step]_vars

\* C20: a valid leaf PTE at level 2 ends the walk with (ppn << 30) | (va &
\* 0x3FFFFFFF) after the one read of the root table; a valid leaf PTE at
\* level 1 ends it with (ppn << 21) | (va & 0x1FFFFF) after two reads
C20Step ==
    WalkStep =>
        LET va == walker_ret'.va
            i2 == (va \div 1073741824) % 512
            i1 == (va \div 2097152) % 512
            v2 == SlotValue(memory, satp, i2)
            t1 == SlotPpn(v2) * 4096
            v1 == SlotValue(memory, t1, i1)
        IN  /\ (SlotValid(v2) /\ SlotLeaf(v2)) =>
                   /\ walker_ret'.pa = SlotPpn(v2) * 1073741824 + (va % 1073741824)
                   /\ walker_ret'.reads = << <<satp, i2>> >>
            /\ (SlotValid(v2) /\ ~SlotLeaf(v2) /\ t1 \in DOMAIN memory
                  /\ SlotValid(v1) /\ SlotLeaf(v1)) =>
                   /\ walker_ret'.pa = SlotPpn(v1) * 2097152 + (va % 2097152)
                   /\ walker_ret'.reads = << <<satp, i2>>, <<t1, i1>> >>

C20SuperpageShortCircuit == [][C20Step]_vars

\* translate(0x401234) stopped at a leaf in the root table: 1GB page of frame 1
C20Witness ==
    /\ walker_ret.op = "translate"
    /\ walker_ret.va = 4198964
    /\ Len(walker_ret.reads) = 1
    /\ walker_ret.pa = 1073741824 + 4198964

\* translate(0x234) stopped at a leaf in a level-1 table: 2MB page of frame 1
C20WitnessLevel1 ==
    /\ walker_ret.op = "translate"
    /\ walker_ret.va = 564
    /\ Len(walker_ret.reads) = 2
    /\ walker_ret.pa = 2097152 + 564

----------------------------------------------------------------------------
(* Cache: victim selection, hit effect, miss install *)

\* every line of the cache, as (set, way) pairs
Lines == Sets \X Ways

\* the lowest element of a non-empty set of way indices
LowestWay(W) == CHOOSE w \in W : \A u \in W : w <= u

\* the step is a miss / a hit that returned
MissStep == AccessStep /\ ret'.result = "miss"
HitStep  == AccessStep /\ ret'.result = "hit"

\* C28: on a miss the new line goes into the lowest-indexed invalid way of the
\* set and nothing is evicted; with no invalid way it replaces the lowest-
\* indexed way among those with the minimum lru_counter; the valid ways of
\* every set form a prefix of the ways
C28Step ==
    MissStep =>
        LET s       == SetOf(ret'.address)
            invalid == Ways \ ValidWays(cache, s)
            oldest  == {w \in Ways : \A u \in Ways :
                           cache[s][w].lru_counter <= cache[s][u].lru_counter}
            v       == IF invalid # {} THEN LowestWay(invalid) ELSE LowestWay(oldest)
        IN  /\ cache'[s][v] # cache[s][v]
            /\ cache'[s][v].tag = TagOf(ret'.address)
            /\ \A l \in Lines : l # <<s, v>> => cache'[l[1]][l[2]] = cache[l[1]][l[2]]
            /\ evictions' = IF invalid # {} THEN evictions ELSE evictions + 1

C28ValidPrefix ==
    (constructed /\ tag_bits >= 0) =>
        \A s \in Sets : \A w \in Ways :
            cache[s][w].valid => \A u \in 0..w : cache[s][u].valid

C28VictimSelection == [](C28ValidPrefix) /\ [][C28Step]_vars

\* a 3-way set filled in way order, then its oldest line (way 0) replaced
C28Witness ==
    /\ associativity = 3
    /\ Len(trace) = 4
    /\ Results(trace) = <<"miss", "miss", "miss", "miss">>
    /\ \A i \in 1..4 : SetOf(trace[i][2]) = SetOf(trace[1][2])
    /\ evictions = 1
    /\ cache[SetOf(trace[1][2])][0].lru_counter = 4
    /\ cache[SetOf(trace[1][2])][1].lru_counter = 2
    /\ cache[SetOf(trace[1][2])][2].lru_counter = 3

\* C29: a hit adds 1 to the global LRU counter and stamps the hit line with
\* the new value, larger than every other line's; a write hit sets dirty, a
\* read hit keeps it; tag, valid bit and every other line are unchanged
C29Step ==
    HitStep =>
        LET s == SetOf(ret'.address)
            t == TagOf(ret'.address)
        IN  \E w \in Ways :
              /\ cache[s][w].valid /\ cache[s][w].tag = t
              /\ global_lru_counter' = global_lru_counter + 1
              /\ cache'[s][w].lru_counter = global_lru_counter'
              /\ \A l \in Lines : l # <<s, w>> =>
                     /\ cache'[l[1]][l[2]] = cache[l[1]][l[2]]
                     /\ cache'[l[1]][l[2]].lru_counter < cache'[s][w].lru_counter
              /\ cache'[s][w].dirty =
                     IF ret'.access_type = WRITE THEN TRUE ELSE cache[s][w].dirty
              /\ cache'[s][w].tag = cache[s][w].tag
              /\ cache'[s][w].valid

C29HitEffect == [][C29Step]_vars

\* a read hit on a line that an earlier write made dirty: the line stays dirty
C29Witness ==
    /\ Len(trace) = 2
    /\ trace[1][1] = WRITE /\ trace[1][3] = "miss"
    /\ trace[2][1] = READ /\ trace[2][3] = "hit"
    /\ cache[SetOf(trace[2][2])][0].dirty
    /\ cache[SetOf(trace[2][2])][0].lru_counter = 2

\* C30: after a miss the victim way holds valid, the accessed tag, dirty
\* exactly for a write and the newest LRU rank; evictions grows by 1 exactly
\* when the victim was valid
C30Step ==
    MissStep =>
        LET s == SetOf(ret'.address)
            v == TouchedWay(s)
        IN  /\ cache'[s][v].valid
            /\ cache'[s][v].tag = TagOf(ret'.address)
            /\ cache'[s][v].dirty = (ret'.access_type = WRITE)
            /\ global_lru_counter' = global_lru_counter + 1
            /\ cache'[s][v].lru_counter = global_lru_counter'
            /\ \A l \in Lines : l # <<s, v>> =>
                   cache'[l[1]][l[2]].lru_counter < cache'[s][v].lru_counter
            /\ evictions' = IF cache[s][v].valid THEN evictions + 1 ELSE evictions

C30MissInstall == [][C30Step]_vars

\* a read miss replaced a dirty line (counted, the access being verbose) and
\* the new line is clean
C30Witness ==
    /\ Len(trace) = 3
    /\ ret.result = "miss" /\ ret.access_type = READ /\ ret.verbose
    /\ evictions = 1 /\ dirty_evictions = 1
    /\ \E w \in Ways : /\ cache[SetOf(ret.address)][w].tag = TagOf(ret.address)
                       /\ cache[SetOf(ret.address)][w].lru_counter = 3
                       /\ ~cache[SetOf(ret.address)][w].dirty

----------------------------------------------------------------------------
(* Page walker: fault reporting, table allocation, persistence of mappings *)

\* a step in which map_page ran
MapStep == map_calls' = map_calls + 1

\* the table indices of va
Index2(va) == (va \div 1073741824) % 512
Index1(va) == (va \div 2097152) % 512
Index0(va) == (va \div 4096) % 512

\* what a read of va resolves to in the tables of mem: an address, None for a
\* PTE that is not valid, "KeyError" for a pointer to a table that does not exist
Resolve(mem, root, va) ==
    LET v2 == SlotValue(mem, root, Index2(va))
        t1 == SlotPpn(v2) * 4096
        v1 == SlotValue(mem, t1, Index1(va))
        t0 == SlotPpn(v1) * 4096
        v0 == SlotValue(mem, t0, Index0(va))
    IN  IF ~SlotValid(v2) THEN None
        ELSE IF SlotLeaf(v2) THEN SlotPpn(v2) * 1073741824 + (va % 1073741824)
        ELSE IF t1 \notin DOMAIN mem THEN "KeyError"
        ELSE IF ~SlotValid(v1) THEN None
        ELSE IF SlotLeaf(v1) THEN SlotPpn(v1) * 2097152 + (va % 2097152)
        ELSE IF t0 \notin DOMAIN mem THEN "KeyError"
        ELSE IF ~SlotValid(v0) THEN None
        ELSE SlotPpn(v0) * 4096 + (va % 4096)

\* C22: the value translate returns for a missing mapping is never the value
\* it returns for a write to a non-writable page
C22FaultsDistinguishable ==
    fault_returns[NOT_PRESENT] \cap fault_returns[PERMISSION_VIOLATION] = {}

\* C25: map_page allocates a table only for an intermediate PTE that is not
\* valid, at most 2 per call, page-aligned and zero; with both intermediate
\* PTEs valid it allocates nothing, keeps them and writes the level-0 leaf only
C25Step ==
    MapStep =>
        LET va    == walker_ret'.va
            alloc == walker_ret'.allocated
            v2    == SlotValue(memory, satp, Index2(va))
            t1    == SlotPpn(v2) * 4096
            v1    == SlotValue(memory, t1, Index1(va))
            t0    == SlotPpn(v1) * 4096
        IN  /\ Len(alloc) <= 2
            /\ \A i \in DOMAIN alloc : alloc[i] % 4096 = 0
            /\ \A i \in DOMAIN alloc :
                   DOMAIN memory'[alloc[i]] \subseteq {Index2(va), Index1(va), Index0(va)}
            /\ ~SlotValid(v2) => Len(alloc) >= 1
            /\ SlotValid(v2) => Len(alloc) <= 1
            /\ (SlotValid(v2) /\ t1 \in DOMAIN memory /\ SlotValid(v1)) =>
                   /\ alloc = <<>>
                   /\ walker_ret'.result = "ok"
                   /\ DOMAIN memory' = DOMAIN memory
                   /\ SlotValue(memory', satp, Index2(va)) = v2
                   /\ SlotValue(memory', t1, Index1(va)) = v1
                   /\ t0 \in DOMAIN memory
                   /\ SlotValid(SlotValue(memory', t0, Index0(va)))
                   /\ SlotLeaf(SlotValue(memory', t0, Index0(va)))
                   /\ \A t \in DOMAIN memory :
                          \A i \in (DOMAIN memory[t]) \cup (DOMAIN memory'[t]) :
                              <<t, i>> # <<t0, Index0(va)>> =>
                                  SlotValue(memory', t, i) = SlotValue(memory, t, i)

C25LazyAllocation == [][C25Step]_vars

\* C26: every table the allocator returns is page-aligned and not the address
\* of a live table, and no PTE of a live table is lost to an allocation
C26Step ==
    MapStep =>
        LET alloc == walker_ret'.allocated IN
        /\ \A i \in DOMAIN alloc :
              /\ alloc[i] % 4096 = 0
              /\ alloc[i] \notin DOMAIN memory
              /\ \A j \in DOMAIN alloc : j # i => alloc[j] # alloc[i]
        /\ \A t \in DOMAIN memory : DOMAIN memory[t] \subseteq DOMAIN memory'[t]

C26FreshTables ==
    /\ [](walker => satp % 4096 = 0 /\ satp \in DOMAIN memory)
    /\ [][C26Step]_vars

\* C27: a page that resolves to its mapped address keeps doing so over every
\* step that is not a map_page of that page; a read translate returns what
\* the tables resolve to
C27Step ==
    /\ \A va \in WalkerVirtualAddresses :
          (/\ (va \div 4096) \in DOMAIN mapped
           /\ Resolve(memory, satp, va) = MappedPa(mapped[va \div 4096].pa, va)
           /\ ~(MapStep /\ walker_ret'.va \div 4096 = va \div 4096))
              => Resolve(memory', satp, va) = MappedPa(mapped[va \div 4096].pa, va)
    /\ (WalkStep /\ ~walker_ret'.is_write /\ walker_ret'.result # "KeyError")
          => walker_ret'.pa = Resolve(memory, satp, walker_ret'.va)

C27MappingsPersist == [][C27Step]_vars

\* steps in which _write_pte or _read_pte was called
PteWriteStep == walker_ret'.op = "write_pte" /\ <<memory, walker_ret>>' # <<memory, walker_ret>>

PteReadStep == walker_ret'.op = "read_pte" /\ walker_ret' # walker_ret

\* the little-endian value of the 8 bytes, for words below 2^31
WordOf(bytes) ==
    bytes[1] + 256 * bytes[2] + 65536 * bytes[3] + 16777216 * bytes[4]

\* C21: _read_pte right after _write_pte at the same table and index returns the
\* written valid, ppn, readable, writable, executable, user, global, accessed
\* and dirty; its is_leaf is (R or W or X) whatever is_leaf was written; the
\* stored little-endian word has the flags in bits 0..7 in that order and ppn
\* from bit 10; no other entry of the table changes.
C21Step ==
    /\ PteWriteStep =>
          LET w == walker_ret'
              bytes == memory'[w.table_pa][w.index]
              flag == <<w.pte.valid, w.pte.readable, w.pte.writable, w.pte.executable,
                        w.pte.user, w.pte.global_page, w.pte.accessed, w.pte.dirty>>
          IN  /\ Len(bytes) = 8
              /\ \A k \in 5..8 : bytes[k] = 0
              /\ \A k \in 0..7 : ((bytes[1] \div Pow2(k)) % 2 = 1) <=> flag[k + 1]
              /\ WordOf(bytes) \div 1024 = w.pte.ppn
              /\ DOMAIN memory' = DOMAIN memory
              /\ \A t \in DOMAIN memory :
                    \A i \in (DOMAIN memory[t]) \cup (DOMAIN memory'[t]) :
                        <<t, i>> # <<w.table_pa, w.index>>
                            => PteBytes(memory', t, i) = PteBytes(memory, t, i)
    /\ (PteReadStep /\ walker_ret.op = "write_pte"
            /\ walker_ret'.table_pa = walker_ret.table_pa
            /\ walker_ret'.index = walker_ret.index) =>
          LET w == walker_ret.pte
              r == walker_ret'.pte
          IN  /\ r.valid = w.valid /\ r.ppn = w.ppn
              /\ r.readable = w.readable /\ r.writable = w.writable
              /\ r.executable = w.executable /\ r.user = w.user
              /\ r.global_page = w.global_page /\ r.accessed = w.accessed
              /\ r.dirty = w.dirty
              /\ r.is_leaf = (w.readable \/ w.writable \/ w.executable)
              /\ memory' = memory

C21PteRoundTrip == [][C21Step]_vars

\* a read returned a written entry whose is_leaf comes from the W bit alone,
\* while the other index of the table holds an entry too
C21Witness ==
    /\ walker_ret.op = "read_pte"
    /\ walker_ret.index = 511
    /\ walker_ret.pte.ppn = 74565
    /\ walker_ret.pte.writable /\ ~walker_ret.pte.readable /\ ~walker_ret.pte.executable
    /\ walker_ret.pte.is_leaf
    /\ 0 \in DOMAIN memory[satp]


\* page-size words that name none of 4KB, 2MB, 1GB
UnknownWords ==
    { words \in CommandWords :
        Len(words) > 0 /\ Upper(words[1]) \notin {"4KB", "2MB", "1GB"} }

\* C23: a translate or map command that names a page size other than 4KB, 2MB
\* or 1GB is not carried out: it changes neither the TLB's entries and
\* counters nor its page table.
C23Step ==
    \A va \in TLBVirtualAddresses, words \in UnknownWords :
        /\ CommandTranslate(va, words) =>
              UNCHANGED <<entries, hits, misses, tlb_global_lru_counter, page_table>>
        /\ \A pa \in TLBPhysicalAddresses :
              CommandMap(va, pa, words) =>
                  UNCHANGED <<entries, hits, misses, tlb_global_lru_counter, page_table>>

C23UnknownPageSizeRejected == [][C23Step]_vars


----------------------------------------------------------------------------
(* Cache statistics and the LRU counter, with reset_stats in play *)

\* the step is a reset_stats call
ResetStep == ret'.op = "reset_stats" /\ <<ret, reset_at, statVars>>' # <<ret, reset_at, statVars>>

ValidLines == {l \in Lines : cache[l[1]][l[2]].valid}

\* C31: the global LRU counter starts at 0, grows by exactly 1 on every access
\* that returns and is changed by nothing else (construction and reset_stats
\* leave it); the lru_counter values of the valid lines are pairwise distinct,
\* positive and at most the global counter, so a full set has one line of
\* minimum rank.
C31Step ==
    /\ AccessStep => global_lru_counter' = global_lru_counter + 1
    /\ ~AccessStep => global_lru_counter' = global_lru_counter

C31Counters ==
    /\ global_lru_counter = Len(trace)
    /\ \A l \in ValidLines :
          /\ cache[l[1]][l[2]].lru_counter > 0
          /\ cache[l[1]][l[2]].lru_counter <= global_lru_counter
          /\ \A m \in ValidLines :
                m # l => cache[m[1]][m[2]].lru_counter # cache[l[1]][l[2]].lru_counter
    /\ \A s \in Sets :
          ValidWays(cache, s) = Ways =>
              Cardinality({w \in Ways : \A u \in Ways :
                              cache[s][w].lru_counter <= cache[s][u].lru_counter}) = 1

C31LruCounter == [](constructed => C31Counters) /\ [][C31Step]_vars

\* a full set after four accesses, the statistics reset in between
C31Witness ==
    /\ constructed
    /\ ValidWays(cache, 0) = Ways
    /\ global_lru_counter = 4
    /\ reset_at = 2

\* C32: every access that returns adds 1 to exactly one of read_hits,
\* read_misses, write_hits, write_misses, the one its kind and outcome name,
\* so their sum is the number of accesses since construction or the last
\* reset_stats; dirty_evictions <= evictions <= read_misses + write_misses;
\* while the statistics were never reset the number of valid lines is
\* (read_misses + write_misses) - evictions.
C32Step ==
    AccessStep =>
        LET kind == ret'.access_type
            hit  == ret'.result = "hit"
        IN  /\ read_hits'    = read_hits    + (IF kind = READ  /\ hit  THEN 1 ELSE 0)
            /\ read_misses'  = read_misses  + (IF kind = READ  /\ ~hit THEN 1 ELSE 0)
            /\ write_hits'   = write_hits   + (IF kind = WRITE /\ hit  THEN 1 ELSE 0)
            /\ write_misses' = write_misses + (IF kind = WRITE /\ ~hit THEN 1 ELSE 0)

C32Counters ==
    /\ read_hits + read_misses + write_hits + write_misses = Len(trace) - reset_at
    /\ dirty_evictions <= evictions
    /\ evictions <= read_misses + write_misses
    /\ reset_at = 0 =>
          Cardinality(ValidLines) = (read_misses + write_misses) - evictions

C32CounterAccounting == [](constructed => C32Counters) /\ [][C32Step]_vars

\* accesses of both kinds and outcomes were counted after a reset, one of them
\* evicting a dirty line
C32Witness ==
    /\ constructed
    /\ reset_at = 1
    /\ read_hits = 1 /\ write_misses = 1 /\ read_misses = 1
    /\ evictions = 1 /\ dirty_evictions = 1

\* the outcome a k-way LRU set gives the i-th access of a trace whatever was
\* reset in between: a hit iff the block was accessed before and fewer than k
\* other blocks of its set were accessed since its latest access
LruOutcome(tr, i) ==
    LET b == BlockOf(tr[i][2])
        earlier == {j \in 1..(i - 1) : BlockOf(tr[j][2]) = b}
    IN  IF earlier = {} THEN "miss"
        ELSE LET last == CHOOSE j \in earlier : \A k \in earlier : k <= j
                 since == {BlockOf(tr[k][2]) : k \in (last + 1)..(i - 1)}
                 others == {o \in since : o # b /\ o % num_sets = b % num_sets}
             IN  IF Cardinality(others) < associativity THEN "hit" ELSE "miss"

\* C33: reset_stats sets read_hits, read_misses, write_hits, write_misses,
\* evictions and dirty_evictions to 0 and leaves every line and the global LRU
\* counter as they were, so every access has the outcome it would have had
\* without the reset.
C33Step ==
    ResetStep =>
        /\ read_hits' = 0 /\ read_misses' = 0 /\ write_hits' = 0 /\ write_misses' = 0
        /\ evictions' = 0 /\ dirty_evictions' = 0
        /\ cache' = cache
        /\ global_lru_counter' = global_lru_counter
        /\ UNCHANGED geomVars

C33Outcomes == \A i \in 1..Len(trace) : trace[i][3] = LruOutcome(trace, i)

C33ResetStats == [](constructed => C33Outcomes) /\ [][C33Step]_vars

\* counters that were not 0 were reset with a line resident, and the next
\* access hit that line
C33Witness ==
    /\ constructed
    /\ reset_at = 2
    /\ Len(trace) = 3 /\ trace[3][3] = "hit"
    /\ read_hits + write_hits = 1 /\ read_misses + write_misses = 0 /\ evictions = 0

----------------------------------------------------------------------------
(* TLB entries: flags, stale translations, permissions *)

\* C34: every valid entry has accessed set; a miss that installs an entry
\* leaves it dirty exactly when the access was a write, a hit sets dirty on a
\* write and keeps it on a read, and no other call changes any dirty flag.
C34Step ==
    IF TranslateStep /\ tlb_ret'.pa # None
    THEN \E k \in DOMAIN entries :
            /\ CachedAt(entries', tlb_ret'.va, tlb_ret'.page_size) = {k}
            /\ entries'[k].dirty =
                  IF tlb_ret'.outcome = "miss" THEN tlb_ret'.is_write
                  ELSE entries[k].dirty \/ tlb_ret'.is_write
            /\ \A i \in DOMAIN entries : i # k => entries'[i].dirty = entries[i].dirty
    ELSE \A i \in DOMAIN entries : entries'[i].dirty = entries[i].dirty

C34Accessed == \A i \in DOMAIN entries : entries[i].valid => entries[i].accessed

C34AccessedDirty == [](C34Accessed) /\ [][C34Step]_vars

\* a read hit on an entry that an earlier write left dirty, next to an entry
\* that a read installed clean
C34Witness ==
    /\ tlb_ret.op = "translate" /\ tlb_ret.outcome = "hit" /\ ~tlb_ret.is_write
    /\ \E k \in CachedAt(entries, tlb_ret.va, tlb_ret.page_size) : entries[k].dirty
    /\ \E i \in DOMAIN entries : entries[i].valid /\ ~entries[i].dirty

\* TLB.get_reach: the page sizes of the valid entries, summed
GetReach ==
    Cardinality({i \in DOMAIN entries : entries[i].valid /\ entries[i].page_size = KB_4})
            * 4096
        + Cardinality({i \in DOMAIN entries :
                          entries[i].valid /\ entries[i].page_size = MB_2}) * 2097152
        + Cardinality({i \in DOMAIN entries :
                          entries[i].valid /\ entries[i].page_size = GB_1}) * 1073741824

\* C36: every valid entry is readable, writable, not executable and not
\* global, whatever install_mapping was given; translate returns no address
\* only on a miss for a page the page table does not map, never on a hit;
\* after flush no entry is valid (get_reach() is 0).
C36Step ==
    /\ (TranslateStep /\ tlb_ret'.pa = None) =>
          /\ tlb_ret'.outcome = "miss"
          /\ PageOf(tlb_ret'.va, tlb_ret'.page_size) \notin DOMAIN page_table
    /\ (TranslateStep /\ PageOf(tlb_ret'.va, tlb_ret'.page_size) \in DOMAIN page_table)
          => tlb_ret'.pa # None
    /\ (tlb_ret'.op = "flush" /\ tlb_ret' # tlb_ret) =>
          \A i \in DOMAIN entries : ~entries'[i].valid

C36Entries ==
    /\ \A i \in DOMAIN entries :
          entries[i].valid =>
              /\ entries[i].readable /\ entries[i].writable
              /\ ~entries[i].executable /\ ~entries[i].global_page
    /\ tlb_ret.op = "flush" => GetReach = 0

C35Step ==
    /\ (tlb_ret'.op = "install_mapping" /\ installed' # installed) => entries' = entries
    /\ TranslateStep =>
          LET va == tlb_ret'.va
              ps == tlb_ret'.page_size
              bits == PageOffsetBits(ps)
              cached == CachedAt(entries, va, ps)
          IN  IF cached # {}
              THEN \E k \in cached :
                      /\ tlb_ret'.outcome = "hit"
                      /\ tlb_ret'.pa = entries[k].ppn * Pow2(bits) + (va % Pow2(bits))
                      /\ entries'[k].ppn = entries[k].ppn
              ELSE PageOf(va, ps) \in DOMAIN installed =>
                      tlb_ret'.pa = (installed[PageOf(va, ps)].pa \div Pow2(bits)) * Pow2(bits)
                                        + (va % Pow2(bits))

C35StaleEntries == [][C35Step]_vars

\* a hit returned an address in a physical page other than the one the page
\* is mapped to now
C35Witness ==
    /\ tlb_ret.op = "translate" /\ tlb_ret.outcome = "hit"
    /\ tlb_ret.pa \div 4096 # installed[PageOf(tlb_ret.va, tlb_ret.page_size)].pa \div 4096

\* the page was translated again after the stale entry was gone, and the
\* address is in the page it is mapped to now
C35WitnessRefreshed ==
    /\ tlb_ret.op = "translate" /\ tlb_ret.outcome = "miss" /\ misses >= 2
    /\ tlb_ret.va = 4660 /\ tlb_ret.pa = 8389172
    /\ hits = 1

----------------------------------------------------------------------------
(* Walker: what translate leaves alone, and its counters *)

\* a step in which translate was called, whatever came of it
TranslateCall ==
    /\ walker_ret'.op = "translate"
    /\ <<page_walks, page_faults, walker_ret>>' # <<page_walks, page_faults, walker_ret>>

\* C37: no translate call, successful or faulting, read or write, changes a
\* byte of a page table, adds a table or changes satp; the accessed and dirty
\* bits of the PTEs it read stay as they were.
C37Step ==
    TranslateCall =>
        /\ memory' = memory
        /\ satp' = satp
        /\ DOMAIN memory' = DOMAIN memory
        /\ \A r \in 1..Len(walker_ret'.reads) :
              walker_ret'.reads[r][1] \in DOMAIN memory =>
                  SlotValue(memory', walker_ret'.reads[r][1], walker_ret'.reads[r][2])
                    = SlotValue(memory, walker_ret'.reads[r][1], walker_ret'.reads[r][2])

C37TranslateReadOnly == [][C37Step]_vars

\* a write translate walked three levels to a leaf with the accessed and dirty
\* bits clear and returned its address
C37Witness ==
    /\ walker_ret.op = "translate" /\ walker_ret.result = "ok" /\ walker_ret.is_write
    /\ Len(walker_ret.reads) = 3
    /\ (SlotValue(memory, walker_ret.reads[3][1], walker_ret.reads[3][2]) \div 64) % 4 = 0

\* C38: every translate call adds 1 to page_walks and either returns an
\* address, leaving page_faults, or returns a fault, adding 1 to page_faults;
\* map_page changes neither counter; page_faults <= page_walks, and the calls
\* that returned an address number page_walks - page_faults.
C38Step ==
    /\ TranslateCall =>
          /\ page_walks' = page_walks + 1
          /\ walker_ret'.result \in {"ok", "fault"}
          /\ page_faults' = page_faults + (IF walker_ret'.result = "fault" THEN 1 ELSE 0)
    /\ MapStep => page_walks' = page_walks /\ page_faults' = page_faults

C38WalkerStatistics == [](page_faults <= page_walks) /\ [][C38Step]_vars

----------------------------------------------------------------------------
(* Web application and VIPT visualizer                                     *)

\* the cache set an address selects: its block number modulo the number of sets
SetIndex(address, bytes_per_block, sets) == (address \div bytes_per_block) % sets

\* every two of the addresses that agree below the page boundary select the
\* same set of a cache with these blocks and sets
PageOffsetSelectsSet(bytes_per_page, bytes_per_block, sets) ==
    \A a \in ViptVirtualAddresses, b \in ViptPhysicalAddresses :
        a % bytes_per_page = b % bytes_per_page
            => SetIndex(a, bytes_per_block, sets) = SetIndex(b, bytes_per_block, sets)

\* C39: whenever the visualizer or /api/vipt/analyze reports the configuration
\* safe, the set index comes from page-offset bits only: two addresses with
\* equal page offset (a virtual address and its physical address) select the
\* same cache set.
C39SafeSameSet ==
    /\ (visualizer.built /\ visualizer.is_vipt_safe) =>
           PageOffsetSelectsSet(visualizer.page_size, visualizer.block_size,
                                visualizer.num_sets)
    /\ (vipt_ret.op = "visualize_vipt" /\ vipt_ret.safe
            /\ vipt_ret.va_offset = vipt_ret.pa_offset) =>
           vipt_ret.set = (vipt_ret.pa \div Pow2(vipt_ret.index_start_bit))
                              % Pow2(vipt_ret.index_end_bit - vipt_ret.index_start_bit + 1)
    /\ (response.op = "vipt_analyze" /\ response.is_safe) =>
           PageOffsetSelectsSet(response.page_size, response.block_size,
                                response.num_sets)

\* the text of a va that is a hexadecimal number
ValidHex(chars) == chars # <<>> /\ \A i \in 1..Len(chars) : chars[i] \in DOMAIN HexDigit

\* C40: a request to /api/pagewalk/translate whose va is a valid hexadecimal
\* address is answered with success = true, pa = the page
\* (va & ~0xFFF) | 0x10000000 plus the offset of va, page_walks = 1 and
\* page_faults = 0, never with an error.
C40PagewalkAnswer ==
    (request.op = "pagewalk_translate"
        /\ ValidHex(Get(request.data, "va", <<"4", "0", "1", "2", "3", "4">>))) =>
       /\ response.success
       /\ \E va \in {Int16(Get(request.data, "va",
                               <<"4", "0", "1", "2", "3", "4">>)).value} :
             response.pa = BitOr(va - (va % 4096), 268435456) + (va % 4096)
       /\ response.stats = [page_walks |-> 1, page_faults |-> 0]

====
